---- MODULE Spec2Model ----
(***************************************************************************)
(* A model of the candidate pipeline of komusan's vocabulary builder:      *)
(*   - Candidate.insert_filler_vowels and Candidate.validate               *)
(*     (scripts/buildutil.py): the repair engine and its validator;        *)
(*   - VocBuilder.calc_distance, calc_sim_penalties,                       *)
(*     store_normalized_sim_penalties and print_cands                      *)
(*     (scripts/buildvoc.py): distance, scoring and ranking;               *)
(*   - VocBuilder.mk_candidate and build_candidates_for_lang               *)
(*     (scripts/buildvoc.py): the conversion of a source word into a       *)
(*     candidate, the candidate cache, the list of one language.           *)
(*                                                                         *)
(* Words are sequences of one-character strings.  The filler vowel (the    *)
(* schwa of the source) is written "@" here, since a module is ASCII.      *)
(***************************************************************************)
EXTENDS Integers, Sequences, FiniteSets, TLC

VARIABLES
    pc,          \* where the modelled run stands
    cand,        \* the Candidate under repair: word, penalty, lang, eil, filled
    orig,        \* cand.word before any repair
    first,       \* cand as it was right after the first insert_filler_vowels call
    calls,       \* number of insert_filler_vowels calls made on cand
    valErr,      \* what validate() returned for the current cand ("unset": not called)
    dargs,       \* the two words calc_distance is studied on
    dres,        \* the results of the calc_distance calls made so far
    candidates,  \* the candidates map: list of [lang, cands] in insertion order
    word_arg,    \* args.word: TRUE when the --word option is in use
    lang_i,      \* number of languages the loop of select_candidate has handled
    cand_list,   \* the list returned by store_normalized_sim_penalties
    pargs,       \* the arguments and options of the print_cands call
    ranked,      \* the candidates in the order print_cands processes them
    eligible,    \* the list returned by print_cands
    starred,     \* the candidates print_cands flags as best (star)
    candi_cache, \* self.candi_cache: the Candidate object (or "None") of each key
    schwastrip,  \* args.schwastrip
    mk_word,     \* the word the mk_candidate calls are studied on
    mk_calls,    \* the mk_candidate calls made so far, with what they returned
    builds,      \* the build_candidates_for_lang calls made so far
    active_fallbacks, \* self._active_fallbacks
    fb_calls,    \* the build_candidates calls made so far, with what they did
    existing_words_dict, \* the keys of self.existing_words_dict
    existing_norm_words, \* self.existing_norm_words
    allowduplicates,     \* args.allowduplicates
    line,        \* the constraints of the auxfile line being processed
    selections,  \* the lines processed so far, with what was numbered and chosen
    messages,    \* RecordingLogger._messages
    stdout,      \* what the logger has printed
    logfile,     \* the selection log: whether it exists, and its text
    backup,      \* the text of the '.bak' copy of the selection log (<<>>: none)
    log_start,   \* the selection log when the run started
    log_calls,   \* the calls made on the logger so far
    concepts     \* the arguments and local variables of find_concepts

vars == <<pc, cand, orig, first, calls, valErr, dargs, dres, candidates, word_arg,
          lang_i, cand_list, pargs, ranked, eligible, starred, candi_cache,
          schwastrip, mk_word, mk_calls, builds, active_fallbacks, fb_calls,
          existing_words_dict, existing_norm_words, allowduplicates, line, selections,
          messages, stdout, logfile, backup, log_start, log_calls, concepts>>
repairVars == <<cand, orig, first, calls, valErr>>
distVars == <<dargs, dres>>
scoreVars ==
    <<candidates, word_arg, lang_i, cand_list, pargs, ranked, eligible, starred>>
buildVars == <<candi_cache, schwastrip, mk_word, mk_calls, builds>>
fallbackVars == <<active_fallbacks, fb_calls>>
selectVars ==
    <<existing_words_dict, existing_norm_words, allowduplicates, line, selections>>
logVars == <<messages, stdout, logfile, backup, log_start, log_calls>>
restVars == <<fallbackVars, selectVars, logVars, concepts>>

(***************************************************************************)
(* Constants and character classes of buildutil.py                         *)
(***************************************************************************)
SCHWA == "@"

INITIAL_NON_SEMIVOWELS ==
    {"b", "C", "d", "f", "g", "h", "j", "k", "l", "m", "n", "p", "r", "s", "S",
     "t", "v", "z"}
SEMIVOWELS == {"w", "y"}
INITIAL_CONSONANTS == INITIAL_NON_SEMIVOWELS \cup SEMIVOWELS
ALL_CONSONANTS == INITIAL_CONSONANTS \cup {"N"}
ALL_CONSONANTS_SET == ALL_CONSONANTS
ALL_NON_SEMIVOWELS == INITIAL_NON_SEMIVOWELS \cup {"N"}
WORD_FINAL_CONSONANTS == {"k", "l", "m", "n", "N", "p", "r", "s", "t"}
SYLLABLE_FINAL_CONSONANTS == WORD_FINAL_CONSONANTS \cup {"b", "d", "g"}
SECOND_CONSONANTS == {"l", "r", "w", "y"}
NOT_WORD_FINAL_NON_SEMIVOWEL == {"C", "S", "b", "d", "f", "g", "h", "j", "v", "z"}
NOT_SYLLABLE_FINAL_NON_SEMIVOWEL == {"C", "S", "f", "h", "j", "v", "z"}
NOT_SECOND_CONSONANTS ==
    {"b", "C", "d", "f", "g", "h", "j", "k", "m", "n", "p", "s", "S", "t", "v", "z"}
SIMPLE_VOWELS == {"a", "e", "i", "o", "u"}
INTERNAL_VOWELS == SIMPLE_VOWELS \cup {SCHWA}
FALLING_DIPHTHONGS == {<<"a", "y">>, <<"a", "w">>, <<"e", "w">>, <<"o", "y">>}
ILLEGAL_FALLING_DIPHTHONGS ==
    {<<"e", "y">>, <<"i", "y">>, <<"o", "w">>, <<"u", "w">>}
PUNCTUATION == {"-", ",", ".", ";", ":", "!", "?", "/", "(", ")"}
\* every character a word of the model can hold ('.' of a regex)
CHARS ==
    ALL_CONSONANTS \cup INTERNAL_VOWELS \cup PUNCTUATION \cup {" ", "X", "x", "c"}

(***************************************************************************)
(* String and regex helpers                                                *)
(***************************************************************************)
\* the character at position i (1-based), "" outside the word
At(w, i) == IF i >= 1 /\ i <= Len(w) THEN w[i] ELSE ""

\* w[i..] starts with one character of each class of cls, in order
Matches(w, i, cls) ==
    /\ i >= 1
    /\ i + Len(cls) - 1 <= Len(w)
    /\ \A k \in 1..Len(cls) : w[i + k - 1] \in cls[k]

\* the classes matching exactly the literal s
Lit(s) == [k \in 1..Len(s) |-> {s[k]}]

EndsWith(w, s) ==
    Len(w) >= Len(s) /\ SubSeq(w, Len(w) - Len(s) + 1, Len(w)) = s

StartsWith(w, s) == Len(w) >= Len(s) /\ SubSeq(w, 1, Len(s)) = s

\* re.sub / str.replace: leftmost non-overlapping matches, left to right;
\* MatchLen(w, i) is the length of the match at i (0: none), Repl(w, i) its
\* replacement
ReSub(w, MatchLen(_, _), Repl(_, _)) ==
    LET f[i \in 1..(Len(w) + 1)] ==
            IF i > Len(w) THEN <<>>
            ELSE LET n == MatchLen(w, i) IN
                 IF n > 0 THEN Repl(w, i) \o f[i + n]
                 ELSE <<w[i]>> \o f[i + 1]
    IN f[1]

\* the number of replacements re.subn reports (str.count for a literal)
ReCount(w, MatchLen(_, _)) ==
    LET f[i \in 1..(Len(w) + 1)] ==
            IF i > Len(w) THEN 0
            ELSE LET n == MatchLen(w, i) IN
                 IF n > 0 THEN 1 + f[i + n] ELSE f[i + 1]
    IN f[1]

\* sub of the pattern cls (a sequence of classes) by the match with a filler
\* vowel inserted after its first k characters
InsertFiller(w, cls, k) ==
    ReSub(w,
          LAMBDA x, i : IF Matches(x, i, cls) THEN Len(cls) ELSE 0,
          LAMBDA x, i : SubSeq(x, i, i + k - 1) \o <<SCHWA>>
                        \o SubSeq(x, i + k, i + Len(cls) - 1))

\* str.replace(old, new) for literals
Replace(w, old, new) ==
    ReSub(w,
          LAMBDA x, i : IF Matches(x, i, Lit(old)) THEN Len(old) ELSE 0,
          LAMBDA x, i : new)

Count(w, old) ==
    ReCount(w, LAMBDA x, i : IF Matches(x, i, Lit(old)) THEN Len(old) ELSE 0)

\* str.split(): the maximal runs of non-space characters
Split(w) ==
    LET f[i \in 1..(Len(w) + 1)] ==
            \* <<finished words, current word>> for the suffix from i, built
            \* right to left
            IF i > Len(w) THEN <<<<>>, <<>>>>
            ELSE LET r == f[i + 1] IN
                 IF w[i] = " "
                 THEN IF r[2] = <<>> THEN r ELSE << <<r[2]>> \o r[1], <<>> >>
                 ELSE <<r[1], <<w[i]>> \o r[2]>>
        top == f[1]
    IN IF top[2] = <<>> THEN top[1] ELSE <<top[2]>> \o top[1]

\* ' '.join(ws)
Join(parts) ==
    LET f[i \in 1..(Len(parts) + 1)] ==
            IF i > Len(parts) THEN <<>>
            ELSE IF i = Len(parts) THEN parts[i]
            ELSE parts[i] \o <<" ">> \o f[i + 1]
    IN f[1]

\* PUNCTUATION_RE.sub(' ', word): every run of punctuation becomes one space
PunctSub(w) ==
    ReSub(w,
          LAMBDA x, i :
              IF At(x, i) \in PUNCTUATION
              THEN LET run[j \in i..(Len(x) + 1)] ==
                           IF At(x, j) \in PUNCTUATION THEN 1 + run[j + 1] ELSE 0
                   IN run[i]
              ELSE 0,
          LAMBDA x, i : <<" ">>)

(***************************************************************************)
(* Candidate.insert_filler_vowels: the rules, in the order of the source   *)
(***************************************************************************)
\* 'X' (IPA /x/) becomes 'h' before the characters of cls
XToH(w, cls) ==
    ReSub(w,
          LAMBDA x, i : IF Matches(x, i, <<{"X"}, cls>>) THEN 2 ELSE 0,
          LAMBDA x, i : <<"h", x[i + 1]>>)

\* DOUBLE_CONS_RE.sub(r'\1', word)
DoubleCons(w) ==
    ReSub(w,
          LAMBDA x, i : IF At(x, i) \in ALL_CONSONANTS /\ At(x, i + 1) = x[i]
                        THEN 2 ELSE 0,
          LAMBDA x, i : <<x[i]>>)

\* NY_BEFORE_CONSONANT.sub(r'n\1', word)
NyBeforeConsonant(w) ==
    ReSub(w,
          LAMBDA x, i : IF Matches(x, i, <<{"n"}, {"y"}, INITIAL_CONSONANTS>>)
                        THEN 3 ELSE 0,
          LAMBDA x, i : <<"n", x[i + 2]>>)

\* a semivowel sv between two consonants becomes the vowel v
SemivowelBetweenCons(w, sv, v) ==
    ReSub(w,
          LAMBDA x, i : IF Matches(x, i, <<ALL_CONSONANTS, {sv}, ALL_CONSONANTS>>)
                        THEN 2 ELSE 0,
          LAMBDA x, i : <<x[i], v>>)

\* re.subn('^' + old, new, word): the word and the count
InitialSub(w, old, new) ==
    IF StartsWith(w, old)
    THEN [word |-> new \o SubSeq(w, Len(old) + 1, Len(w)), count |-> 1]
    ELSE [word |-> w, count |-> 0]

\* TS_COMBI_RE: 'ts' at the start of the word or after a syllable-final
\* consonant
TsCombiLen(w, i) ==
    IF Matches(w, i, <<{"t"}, {"s"}>>)
       /\ (i = 1 \/ At(w, i - 1) \in SYLLABLE_FINAL_CONSONANTS)
    THEN 2 ELSE 0

TsCombi(w) == ReSub(w, TsCombiLen, LAMBDA x, i : <<"s">>)

\* IU_FALLING_DIPHTHONGS_RE: 'iw' / 'uy' not followed by a simple vowel
IuFalling(w) ==
    ReSub(w,
          LAMBDA x, i :
              IF (Matches(x, i, <<{"i"}, {"w"}>>) \/ Matches(x, i, <<{"u"}, {"y"}>>))
                 /\ At(x, i + 2) \notin SIMPLE_VOWELS
              THEN 2 ELSE 0,
          LAMBDA x, i : IF x[i] = "i" THEN <<"i", "u">> ELSE <<"u", "i">>)

\* the French -eil / -ille(s) rule; eil: re.search(r'(eil|illes?)\b', original)
FrenchEil(w, lang, eil) ==
    IF lang = "fr" /\ At(w, Len(w)) = "y" /\ eil /\ Len(w) >= 2
       /\ SubSeq(w, Len(w) - 1, Len(w)) \in ILLEGAL_FALLING_DIPHTHONGS
    THEN SubSeq(w, 1, Len(w) - 1) \o <<"i">>
    ELSE w

\* ILLEGAL_FALLING_DIPHTHONGS_RE: 'ey|iy|ow|uw' not followed by a simple vowel
IllegalFallingLen(w, i) ==
    IF i + 1 <= Len(w) /\ <<w[i], w[i + 1]>> \in ILLEGAL_FALLING_DIPHTHONGS
       /\ At(w, i + 2) \notin SIMPLE_VOWELS
    THEN 2 ELSE 0

IllegalFalling(w) == ReSub(w, IllegalFallingLen, LAMBDA x, i : <<x[i]>>)

\* H_BEFORE_CONSONANT: 'h' before a consonant that is no semivowel
HBeforeConsLen(w, i) ==
    IF Matches(w, i, <<{"h"}, ALL_NON_SEMIVOWELS>>) THEN 2 ELSE 0

HBeforeCons(w) == ReSub(w, HBeforeConsLen, LAMBDA x, i : <<x[i + 1]>>)

\* re.sub(rf'([{ALL_NON_SEMIVOWELS}])N$', r'\1@N', word)
FinalN(w) ==
    IF Len(w) >= 2 /\ w[Len(w)] = "N" /\ w[Len(w) - 1] \in ALL_NON_SEMIVOWELS
    THEN SubSeq(w, 1, Len(w) - 1) \o <<SCHWA, "N">>
    ELSE w

\* the length of a match of 'Ng?[aeioulr]' at i (0: none)
NgLen(w, i) ==
    LET after == SIMPLE_VOWELS \cup {"l", "r"} IN
    IF Matches(w, i, <<{"N"}, {"g"}, after>>) THEN 3
    ELSE IF Matches(w, i, <<{"N"}, after>>) THEN 2
    ELSE 0

\* the pattern '(^|[SYLLABLE_FINAL_CONSONANTS])' followed by a match of
\* RestLen: <<length of group 1, length of the rest>>, <<0, 0>> for no match
AfterStartOrCoda(w, i, RestLen(_, _)) ==
    IF i = 1 /\ RestLen(w, i) > 0 THEN <<0, RestLen(w, i)>>
    ELSE IF At(w, i) \in SYLLABLE_FINAL_CONSONANTS /\ RestLen(w, i + 1) > 0
         THEN <<1, RestLen(w, i + 1)>>
    ELSE <<0, 0>>

\* a filler vowel before a syllable-initial 'N' or 'Ng'
SyllableInitialN(w) ==
    ReSub(w,
          LAMBDA x, i : LET m == AfterStartOrCoda(x, i, NgLen) IN m[1] + m[2],
          LAMBDA x, i : LET m == AfterStartOrCoda(x, i, NgLen) IN
                        SubSeq(x, i, i + m[1] - 1) \o <<SCHWA>>
                        \o SubSeq(x, i + m[1], i + m[1] + m[2] - 1))

\* re.subn(rf'([{INTERNAL_VOWELS}])SC', r'\1sC', word)
VowelSCLen(w, i) ==
    IF Matches(w, i, <<INTERNAL_VOWELS, {"S"}, {"C"}>>) THEN 3 ELSE 0

VowelSC(w) == ReSub(w, VowelSCLen, LAMBDA x, i : <<x[i], "s", "C">>)

\* final 'z' after a vowel
FinalZ(w) ==
    Len(w) >= 2 /\ w[Len(w)] = "z" /\ w[Len(w) - 1] \in INTERNAL_VOWELS

\* ILLEGAL_SKPT_TRIPLE_RE.sub(r'\1@\2', word)
IllegalSkptTriple(w) ==
    InsertFiller(w, <<SYLLABLE_FINAL_CONSONANTS, {"s"}, {"k", "p", "t"}, CHARS>>, 1)

\* the German 'Sv' before a vowel becomes 'Sw'
GermanSv(w) ==
    ReSub(w,
          LAMBDA x, i : IF Matches(x, i, <<{"S"}, {"v"}, INTERNAL_VOWELS>>)
                        THEN 3 ELSE 0,
          LAMBDA x, i : <<"S", "w", x[i + 2]>>)

\* ILLEGAL_CONS_PAIR_RE
ILLEGAL_CONS_PAIR == <<NOT_SYLLABLE_FINAL_NON_SEMIVOWEL, NOT_SECOND_CONSONANTS>>

IllegalConsPairLen(w, i) == IF Matches(w, i, ILLEGAL_CONS_PAIR) THEN 2 ELSE 0

\* one pass of ILLEGAL_CONS_PAIR_RE.subn(r'\1@\2', word)
IllegalConsPairPass(w) == InsertFiller(w, ILLEGAL_CONS_PAIR, 1)

\* a single pass of the substitution, not repeated
IllegalConsPairOnce(w) == IllegalConsPairPass(w)

\* the 'while count' loop: passes are repeated until one replaces nothing
RECURSIVE IllegalConsPairLoop(_)
IllegalConsPairLoop(w) ==
    IF ReCount(w, IllegalConsPairLen) = 0 THEN w
    ELSE IllegalConsPairLoop(IllegalConsPairPass(w))

\* ILLEGAL_RN_TRIPLE_RE.sub(r'\1@\2', word)
IllegalRnTriple(w) ==
    InsertFiller(w, <<{"r", "s"}, {"m", "n", "t"}, NOT_SECOND_CONSONANTS>>, 2)

\* re.sub(r'([np])mn', r'\1m@n', word)
NpMn(w) == InsertFiller(w, <<{"n", "p"}, {"m"}, {"n"}>>, 2)

\* a filler vowel before initial 's' + a consonant pair that may start a
\* syllable
InitialSCluster(w) ==
    IF Matches(w, 1, <<{"s"}, INITIAL_NON_SEMIVOWELS, SECOND_CONSONANTS>>)
    THEN <<SCHWA>> \o w ELSE w

\* INITIAL_CONS_TRIPLE_RE.sub(r'\1@\2', word); '\b' before a letter holds at
\* the start of the word and after a character that is no letter
InitialConsTriple(w) ==
    ReSub(w,
          LAMBDA x, i :
              IF Matches(x, i, <<INITIAL_CONSONANTS, SYLLABLE_FINAL_CONSONANTS,
                                 INITIAL_CONSONANTS>>)
                 /\ (i = 1 \/ x[i - 1] \in PUNCTUATION \cup {" "})
              THEN 3 ELSE 0,
          LAMBDA x, i : <<x[i], SCHWA, x[i + 1], x[i + 2]>>)

\* ILLEGAL_CONS_TRIPLE_RE.sub(r'\1@\2', word)
IllegalConsTriple(w) ==
    InsertFiller(w, <<SYLLABLE_FINAL_CONSONANTS, SYLLABLE_FINAL_CONSONANTS,
                      NOT_SECOND_CONSONANTS>>, 2)

\* ILLEGAL_CONS_TRIPLE2_RE.sub(r'\1@\2', word)
IllegalConsTriple2(w) ==
    InsertFiller(w, <<INITIAL_NON_SEMIVOWELS, {"l", "r"}, ALL_NON_SEMIVOWELS>>, 2)

\* the vowel a semivowel is converted to
SemiToVowel(c) == IF c = "w" THEN "u" ELSE "i"

\* an initial semivowel before a consonant not allowed in second position
InitialSemivowel(w) ==
    IF Matches(w, 1, <<SEMIVOWELS, NOT_SECOND_CONSONANTS>>)
    THEN <<SemiToVowel(w[1])>> \o SubSeq(w, 2, Len(w)) ELSE w

\* a semivowel as third consonant of a syllable, after the start of the word
\* or a syllable-final consonant
ThirdSemivowelLen(w, i) ==
    IF Matches(w, i, <<INITIAL_NON_SEMIVOWELS, {"l", "r"}, SEMIVOWELS>>)
    THEN 3 ELSE 0

ThirdSemivowel(w) ==
    ReSub(w,
          LAMBDA x, i : LET m == AfterStartOrCoda(x, i, ThirdSemivowelLen) IN
                        m[1] + m[2],
          LAMBDA x, i : LET m == AfterStartOrCoda(x, i, ThirdSemivowelLen)
                            n == m[1] + m[2] IN
                        SubSeq(x, i, i + n - 2) \o <<SemiToVowel(x[i + n - 1])>>)

\* ... and after a vowel or semivowel and a consonant that cannot end a
\* syllable
ThirdSemivowel2(w) ==
    ReSub(w,
          LAMBDA x, i :
              IF Matches(x, i, <<INTERNAL_VOWELS \cup SEMIVOWELS,
                                 NOT_SYLLABLE_FINAL_NON_SEMIVOWEL, {"l", "r"},
                                 SEMIVOWELS>>)
              THEN 4 ELSE 0,
          LAMBDA x, i : <<x[i], x[i + 1], x[i + 2], SemiToVowel(x[i + 3])>>)

\* two semivowels in a row ('wy' or 'yw'): the first one becomes a vowel
TwoSemivowelsLen(w, i) ==
    IF Matches(w, i, <<INITIAL_NON_SEMIVOWELS, {"w"}, {"y"}>>)
       \/ Matches(w, i, <<INITIAL_NON_SEMIVOWELS, {"y"}, {"w"}>>)
    THEN 3 ELSE 0

TwoSemivowels(w) ==
    ReSub(w,
          LAMBDA x, i : LET m == AfterStartOrCoda(x, i, TwoSemivowelsLen) IN
                        m[1] + m[2],
          LAMBDA x, i : LET m == AfterStartOrCoda(x, i, TwoSemivowelsLen)
                            n == m[1] + m[2] IN
                        SubSeq(x, i, i + n - 3)
                        \o <<SemiToVowel(x[i + n - 2]), x[i + n - 1]>>)

TwoSemivowels2(w) ==
    ReSub(w,
          LAMBDA x, i :
              IF Matches(x, i, <<INTERNAL_VOWELS \cup SEMIVOWELS,
                                 NOT_SYLLABLE_FINAL_NON_SEMIVOWEL, {"w"}, {"y"}>>)
                 \/ Matches(x, i, <<INTERNAL_VOWELS \cup SEMIVOWELS,
                                    NOT_SYLLABLE_FINAL_NON_SEMIVOWEL, {"y"}, {"w"}>>)
              THEN 4 ELSE 0,
          LAMBDA x, i : <<x[i], x[i + 1], SemiToVowel(x[i + 2]), x[i + 3]>>)

\* 'N@k' after a syllable-final consonant becomes 'n@k'
NSchwaK(w) ==
    ReSub(w,
          LAMBDA x, i : IF Matches(x, i, <<SYLLABLE_FINAL_CONSONANTS, {"N"},
                                           {SCHWA}, {"k"}>>)
                        THEN 4 ELSE 0,
          LAMBDA x, i : <<x[i], "n", SCHWA, "k">>)

\* a word of just two consonants gets a vowel between them
TwoConsonants(w) ==
    IF Len(w) = 2 /\ w[1] \in INITIAL_NON_SEMIVOWELS
       /\ w[2] \in WORD_FINAL_CONSONANTS /\ w[2] \notin SECOND_CONSONANTS
    THEN <<w[1], SCHWA, w[2]>> ELSE w

\* a vowel is prepended to a word starting with two consonants
PrependFiller(w) ==
    IF Len(w) >= 2 /\ w[1] \in SYLLABLE_FINAL_CONSONANTS
       /\ w[2] \in NOT_SECOND_CONSONANTS
    THEN <<SCHWA>> \o w ELSE w

\* the condition for appending a final filler vowel
NeedsFinalFiller(w) ==
    LET n == Len(w) IN
    \/ (n > 0 /\ w[n] \in NOT_WORD_FINAL_NON_SEMIVOWEL)
    \/ (n > 2 /\ \/ (w[n - 1] \in INITIAL_CONSONANTS /\ w[n] \in SECOND_CONSONANTS)
                 \/ (w[n - 1] \in SYLLABLE_FINAL_CONSONANTS
                     /\ w[n] \in INITIAL_CONSONANTS)
                 \/ (w[n] \in SEMIVOWELS
                     /\ <<w[n - 1], w[n]>> \notin FALLING_DIPHTHONGS))

AppendFiller(w) == IF NeedsFinalFiller(w) THEN w \o <<SCHWA>> ELSE w

HasConsonant(w) == \E i \in 1..Len(w) : w[i] \in ALL_CONSONANTS
HasVowel(w) == \E i \in 1..Len(w) : w[i] \in INTERNAL_VOWELS

\* the word left without its final vowel
VowellessUnfilled(w) == w

\* a word with consonants but no vowel gets a final vowel
VowellessFiller(w) ==
    IF HasConsonant(w) /\ ~HasVowel(w) THEN w \o <<SCHWA>> ELSE w

\* F applied to the value of x, which is computed first (the statements of the
\* source run in sequence, each on the result of the previous one)
Then(x, F(_)) == CHOOSE y \in {F(v) : v \in {x}} : TRUE

\* One statement of the loop body on the state s of the loop (w: the word,
\* lost: sounds deleted with a penalty so far, other: sounds replaced with a
\* penalty so far).  Step rewrites the word; StepLost and StepOther also add
\* N(word before) to the penalty, for deleted resp. replaced sounds.
Step(st, F(_)) == Then(st, LAMBDA s : [s EXCEPT !.w = F(s.w)])

StepLost(st, F(_), N(_)) ==
    Then(st, LAMBDA s : [s EXCEPT !.w = F(s.w), !.lost = s.lost + N(s.w)])

StepOther(st, F(_), N(_)) ==
    Then(st, LAMBDA s : [s EXCEPT !.w = F(s.w), !.other = s.other + N(s.w)])

DropLast(w) == SubSeq(w, 1, Len(w) - 1)

\* lines 301-310: IPA /x/ (written X) becomes h or k
StageX(s0, lang, eil) ==
    LET s1  == Step(s0,
                    LAMBDA v : XToH(v, INTERNAL_VOWELS))
        s2  == Step(s1, LAMBDA v : IF lang = "es" THEN XToH(v, SEMIVOWELS) ELSE v)
        s3  == StepOther(s2, LAMBDA v : Replace(v, <<"X">>, <<"k">>),
                         LAMBDA v : Count(v, <<"X">>))
    IN s3

\* lines 312-329: tx/tc, iy/uw, double consonants, ny, semivowels between
\* consonants
StageSimplify(s0, lang, eil) ==
    LET s4a == Step(s0, LAMBDA v : Replace(v, <<"t", "x">>, <<"c">>))
        s4  == Step(s4a, LAMBDA v : Replace(v, <<"t", "c">>, <<"c">>))
        s5a == Step(s4, LAMBDA v : Replace(v, <<"i", "y">>, <<"i">>))
        s5  == Step(s5a, LAMBDA v : Replace(v, <<"u", "w">>, <<"u">>))
        s6  == Step(s5, DoubleCons)
        s7  == Step(s6, LAMBDA v : IF lang # "de" THEN NyBeforeConsonant(v) ELSE v)
        s8a == Step(s7, LAMBDA v : SemivowelBetweenCons(v, "y", "i"))
        s8  == Step(s8a, LAMBDA v : SemivowelBetweenCons(v, "w", "u"))
    IN s8

\* lines 331-350: initial ks/dz, ts, final iy, iw/uy
StageInitialLoss(s0, lang, eil) ==
    LET s9a == StepLost(s0, LAMBDA v : InitialSub(v, <<"k", "s">>, <<"s">>).word,
                        LAMBDA v : InitialSub(v, <<"k", "s">>, <<"s">>).count)
        s9b == StepLost(s9a, LAMBDA v : InitialSub(v, <<"d", "z">>, <<"z">>).word,
                        LAMBDA v : InitialSub(v, <<"d", "z">>, <<"z">>).count)
        s9  == StepLost(s9b, TsCombi, LAMBDA v : ReCount(v, TsCombiLen))
        s10 == Step(s9, LAMBDA v : IF EndsWith(v, <<"i", "y">>) THEN DropLast(v) ELSE v)
        s11 == Step(s10, IuFalling)
    IN s11

\* lines 352-373: illegal falling diphthongs, final h, h before a consonant
StageDiphthongsH(s0, lang, eil) ==
    LET s12 == Step(s0, LAMBDA v : FrenchEil(v, lang, eil))
        s13 == StepLost(s12, IllegalFalling, LAMBDA v : ReCount(v, IllegalFallingLen))
        s14 == StepLost(s13,
                        LAMBDA v : IF EndsWith(v, <<"h">>) THEN DropLast(v) ELSE v,
                        LAMBDA v : IF EndsWith(v, <<"h">>) THEN 1 ELSE 0)
        s15 == StepLost(s14, HBeforeCons, LAMBDA v : ReCount(v, HBeforeConsLen))
    IN s15

\* lines 375-401: N (ng), SC, final z
StageNasals(s0, lang, eil) ==
    LET s16 == Step(s0, FinalN)
        s17 == Step(s16, LAMBDA v : Replace(v, <<"n", "N">>, <<"N">>))
        s18 == Step(s17, SyllableInitialN)
        s19 == StepOther(s18, VowelSC, LAMBDA v : ReCount(v, VowelSCLen))
        s20 == StepLost(s19, LAMBDA v : Replace(v, <<"S", "C">>, <<"C">>),
                        LAMBDA v : Count(v, <<"S", "C">>))
        s21 == StepOther(s20,
                         LAMBDA v : IF FinalZ(v) THEN DropLast(v) \o <<"s">> ELSE v,
                         LAMBDA v : IF FinalZ(v) THEN 1 ELSE 0)
    IN s21

\* lines 403-419: filler vowels between illegal pairs and triples
StagePairs(s0, lang, eil) ==
    LET s22 == Step(s0, LAMBDA v : Replace(v, <<"r", "l", "d">>,
                                            <<"r", SCHWA, "l", "d">>))
        s23 == Step(s22, IllegalSkptTriple)
        s24 == Step(s23, LAMBDA v : IF lang = "de" THEN GermanSv(v) ELSE v)
        s25 == Step(s24, IllegalConsPairLoop)
        s26 == Step(s25, IllegalRnTriple)
        s27 == Step(s26, NpMn)
    IN s27

\* lines 420-430: stl/stv/smr, initial s clusters, consonant triples
StageTriples(s0, lang, eil) ==
    LET s28 == Step(s0, LAMBDA v : Replace(v, <<"s", "t", "l">>,
                                            <<"s", "t", SCHWA, "l">>))
        s29 == Step(s28, LAMBDA v : Replace(v, <<"s", "t", "v">>,
                                            <<"s", "t", SCHWA, "v">>))
        s30 == Step(s29, LAMBDA v : Replace(v, <<"s", "m", "r">>,
                                            <<"s", SCHWA, "m", "r">>))
        s31 == Step(s30, InitialSCluster)
        s32 == Step(s31, InitialConsTriple)
        s33 == Step(s32, IllegalConsTriple)
        s34 == Step(s33, IllegalConsTriple2)
    IN s34

\* lines 432-467: wh, semivowels that become vowels, N@k
StageSemivowels(s0, lang, eil) ==
    LET s35 == Step(s0, LAMBDA v : InitialSub(v, <<"w", "h">>, <<"w">>).word)
        s36 == Step(s35, InitialSemivowel)
        s37a == Step(s36, ThirdSemivowel)
        s37 == Step(s37a, ThirdSemivowel2)
        s38a == Step(s37, TwoSemivowels)
        s38 == Step(s38a, TwoSemivowels2)
        s39 == Step(s38, NSchwaK)
    IN s39

\* lines 469-498: filler vowels at the edges of the word
StageEdges(s0, lang, eil) ==
    LET s40 == Step(s0, TwoConsonants)
        s41 == Step(s40, PrependFiller)
        s42 == Step(s41, AppendFiller)
        s43 == Step(s42, VowellessFiller)
        s44 == Step(s43, LAMBDA v : IF v = <<"N", SCHWA>> THEN <<SCHWA, "N">> ELSE v)
    IN s44

\* lines 500-509: N@g, double consonants again, Russian ii
StageCleanup(s0, lang, eil) ==
    LET s45 == Step(s0, LAMBDA v : Replace(v, <<"N", SCHWA, "g">>, <<"N", "g">>))
        s46 == Step(s45, DoubleCons)
        s47 == Step(s46, LAMBDA v : IF lang = "ru"
                                   THEN Replace(v, <<"i", "i">>, <<"i">>) ELSE v)
    IN s47

\* the first part of the loop body: the rules that simplify or drop sounds
RepairPhaseSimplify(s0, lang, eil) ==
    LET t1 == Then(s0, LAMBDA s : StageX(s, lang, eil))
        t2 == Then(t1, LAMBDA s : StageSimplify(s, lang, eil))
        t3 == Then(t2, LAMBDA s : StageInitialLoss(s, lang, eil))
        t4 == Then(t3, LAMBDA s : StageDiphthongsH(s, lang, eil))
    IN t4

\* the second part: the rules that insert filler vowels inside the word
RepairPhaseFillers(s0, lang, eil) ==
    LET t1 == Then(s0, LAMBDA s : StageNasals(s, lang, eil))
        t2 == Then(t1, LAMBDA s : StagePairs(s, lang, eil))
        t3 == Then(t2, LAMBDA s : StageTriples(s, lang, eil))
    IN t3

\* the last part: semivowels, the edges of the word, clean-up
RepairPhaseEdges(s0, lang, eil) ==
    LET t1 == Then(s0, LAMBDA s : StageSemivowels(s, lang, eil))
        t2 == Then(t1, LAMBDA s : StageEdges(s, lang, eil))
        t3 == Then(t2, LAMBDA s : StageCleanup(s, lang, eil))
    IN t3

\* the loop body with the filler vowels counted before the clean-up rules
\* (lines 500-509) instead of at the end
RepairWordCountBeforeCleanup(w0, lang, eil) ==
    LET t1 == Then([w |-> w0, lost |-> 0, other |-> 0],
                   LAMBDA s : RepairPhaseSimplify(s, lang, eil))
        t2 == Then(t1, LAMBDA s : RepairPhaseFillers(s, lang, eil))
        t3 == Then(t2, LAMBDA s : StageEdges(StageSemivowels(s, lang, eil), lang, eil))
    IN Then(t3, LAMBDA s : [word |-> StageCleanup(s, lang, eil).w,
                            lost |-> s.lost,
                            other |-> s.other,
                            pen |-> s.lost + s.other + Count(s.w, <<SCHWA>>)])

\* the body of the 'for word in words' loop: the repaired sub-word, the
\* penalty points added for deleted sounds (lost) and for replaced sounds
\* (other), and the penalty added in all (pen, with line 511)
RepairWord(w0, lang, eil) ==
    LET t1 == Then([w |-> w0, lost |-> 0, other |-> 0],
                   LAMBDA s : RepairPhaseSimplify(s, lang, eil))
        t2 == Then(t1, LAMBDA s : RepairPhaseFillers(s, lang, eil))
        t3 == Then(t2, LAMBDA s : RepairPhaseEdges(s, lang, eil))
    IN Then(t3, LAMBDA s : [word |-> s.w,
                            lost |-> s.lost,
                            other |-> s.other,
                            pen |-> s.lost + s.other + Count(s.w, <<SCHWA>>)])

\* the loop over the sub-words ws: the repaired sub-words (new_words) and the
\* penalty added
RECURSIVE RepairWordsTo(_, _, _, _)
RepairWordsTo(ws, k, lang, eil) ==
    IF k = 0 THEN [new_words |-> <<>>, lost |-> 0, other |-> 0, pen |-> 0]
    ELSE Then(<<RepairWordsTo(ws, k - 1, lang, eil), RepairWord(ws[k], lang, eil)>>,
              LAMBDA p : [new_words |-> Append(p[1].new_words, p[2].word),
                          lost |-> p[1].lost + p[2].lost,
                          other |-> p[1].other + p[2].other,
                          pen |-> p[1].pen + p[2].pen])

RepairWords(ws, lang, eil) == RepairWordsTo(ws, Len(ws), lang, eil)

\* the repair of a whole word: punctuation to spaces, split, repair of each
\* sub-word, join
RepairAll(word, lang, eil) ==
    Then(Split(PunctSub(word)),
         LAMBDA ws : Then(RepairWords(ws, lang, eil),
                          LAMBDA r : [word |-> Join(r.new_words), lost |-> r.lost,
                                      other |-> r.other, pen |-> r.pen]))

\* insert_filler_vowels without the early return on 'filled'
insert_filler_vowels_unguarded(c) ==
    Then(RepairAll(c.word, c.lang, c.eil),
         LAMBDA r : [c EXCEPT !.word = r.word,
                              !.penalty = c.penalty + r.pen,
                              !.filled = TRUE])

\* Candidate.insert_filler_vowels as a function of the candidate: nothing
\* happens once 'filled' is set
insert_filler_vowels(c) ==
    IF c.filled THEN c
    ELSE Then(RepairAll(c.word, c.lang, c.eil),
              LAMBDA r : [c EXCEPT !.word = r.word,
                                   !.penalty = c.penalty + r.pen,
                                   !.filled = TRUE])

(***************************************************************************)
(* Candidate.validate                                                      *)
(***************************************************************************)
\* re.split at vowels and falling diphthongs: the consonant clusters between
\* them (possibly empty), first to last
VowelSplit(w) ==
    LET f[i \in 1..(Len(w) + 1)] ==
            \* the parts of the suffix from i; the first one is still open
            IF i > Len(w) THEN << <<>> >>
            ELSE IF i + 1 <= Len(w) /\ <<w[i], w[i + 1]>> \in FALLING_DIPHTHONGS
                 THEN << <<>> >> \o f[i + 2]
            ELSE IF w[i] \in INTERNAL_VOWELS THEN << <<>> >> \o f[i + 1]
            ELSE LET r == f[i + 1] IN << <<w[i]>> \o r[1] >> \o Tail(r)
    IN f[1]

\* the check of one part with a leading syllable-final consonant discarded
\* from the first part too
ValidatePartAnyCoda(part, idx, last_idx) ==
    IF part = <<>> THEN "None"
    ELSE IF idx = last_idx
            /\ (Len(part) > 1 \/ part[1] \notin WORD_FINAL_CONSONANTS)
    THEN "not allowed at the end of words"
    ELSE LET p == IF part[1] \in SYLLABLE_FINAL_CONSONANTS THEN Tail(part) ELSE part IN
         IF p = <<>> THEN "None"
         ELSE IF Len(p) > 2 \/ p[1] \notin INITIAL_CONSONANTS
                 \/ (Len(p) = 2 /\ p[2] \notin SECOND_CONSONANTS)
         THEN "not allowed at the start of syllables"
         ELSE "None"

\* the check of one part (consonant cluster) of a sub-word: "None" or the
\* kind of error
ValidatePart(part, idx, last_idx) ==
    IF part = <<>> THEN "None"
    ELSE IF idx = last_idx
            /\ (Len(part) > 1 \/ part[1] \notin WORD_FINAL_CONSONANTS)
    THEN "not allowed at the end of words"
    ELSE LET p == IF idx > 1 /\ part[1] \in SYLLABLE_FINAL_CONSONANTS
                  THEN Tail(part) ELSE part IN
         IF p = <<>> THEN "None"
         ELSE IF Len(p) > 2 \/ p[1] \notin INITIAL_CONSONANTS
                 \/ (Len(p) = 2 /\ p[2] \notin SECOND_CONSONANTS)
         THEN "not allowed at the start of syllables"
         ELSE "None"

\* the first error among the parts of one sub-word
ValidateWord(w) ==
    LET parts == VowelSplit(w)
        bad == {k \in 1..Len(parts) : ValidatePart(parts[k], k, Len(parts)) # "None"}
    IN IF bad = {} THEN "None"
       ELSE LET k == CHOOSE m \in bad : \A n \in bad : m <= n IN
            ValidatePart(parts[k], k, Len(parts))

\* Candidate.validate: "None" or the kind of error message returned
validate(word) ==
    IF \E i \in 1..Len(word) :
          word[i] \notin ALL_CONSONANTS \cup INTERNAL_VOWELS \cup {" "}
    THEN "unexpected characters"
    ELSE LET ws == Split(word)
             bad == {k \in 1..Len(ws) : ValidateWord(ws[k]) # "None"}
         IN IF bad = {} THEN "None"
            ELSE ValidateWord(ws[CHOOSE m \in bad : \A n \in bad : m <= n])

(***************************************************************************)
(* VocBuilder.calc_distance                                                *)
(***************************************************************************)
\* the characters of the model by ascending code point (the schwa, U+0259,
\* comes last): the order Python compares strings by
CODE_ORDER ==
    <<" ", "!", "(", ")", ",", "-", ".", "/", ":", ";", "?", "C", "N", "S", "X",
      "a", "b", "c", "d", "e", "f", "g", "h", "i", "j", "k", "l", "m", "n", "o",
      "p", "r", "s", "t", "u", "v", "w", "x", "y", "z", SCHWA>>
Ord(c) == CHOOSE k \in 1..Len(CODE_ORDER) : CODE_ORDER[k] = c

\* Python's a < b on strings
StrLess(a, b) ==
    LET n == IF Len(a) < Len(b) THEN Len(a) ELSE Len(b)
        diff == {i \in 1..n : a[i] # b[i]}
    IN IF diff = {} THEN Len(a) < Len(b)
       ELSE \E k \in diff : (\A m \in diff : k <= m) /\ Ord(a[k]) < Ord(b[k])

Min2(x, y) == IF x <= y THEN x ELSE y

\* one row of the Levenshtein table of a and b, up to column j: the distances
\* of a[1..i] to b[1..0], ..., b[1..j], from the row prev of a[1..i-1]
RECURSIVE LevRow(_, _, _, _, _)
LevRow(a, b, prev, i, j) ==
    IF j = 0 THEN <<i>>
    ELSE Then(LevRow(a, b, prev, i, j - 1),
              LAMBDA r : Append(r, Min2(Min2(prev[j + 1] + 1, r[j] + 1),
                                        prev[j] + (IF a[i] = b[j] THEN 0 ELSE 1))))

RECURSIVE LevRows(_, _, _)
LevRows(a, b, i) ==
    IF i = 0 THEN [j \in 1..(Len(b) + 1) |-> j - 1]
    ELSE Then(LevRows(a, b, i - 1), LAMBDA prev : LevRow(a, b, prev, i, Len(b)))

\* editdistance.eval: the Levenshtein distance
editdistance(a, b) == LevRows(a, b, Len(a))[Len(b) + 1]

\* set(word.replace('N', 'n')) & ALL_CONSONANTS_SET
ConsonantsOf(w) ==
    {IF w[i] = "N" THEN "n" ELSE w[i] : i \in 1..Len(w)} \cap ALL_CONSONANTS_SET

\* what a call returns: the pair (edist, related), or the exception it raises
Returned(edist, related) == [raised |-> "", edist |-> edist, related |-> related]
Raised(exc) == [raised |-> exc, edist |-> 0, related |-> FALSE]

\* the comparison proper with the shared-consonant condition left out
CompareAnyLetter(word, other_word) ==
    LET longest == IF Len(word) > Len(other_word) THEN Len(word) ELSE Len(other_word)
        shorter == IF Len(word) < Len(other_word) THEN word ELSE other_word
        longer == IF Len(word) < Len(other_word) THEN other_word ELSE word
    IN IF longest = 0 THEN Raised("ZeroDivisionError")
       ELSE Then(editdistance(word, other_word),
                 LAMBDA edist :
                    Returned(edist,
                             \/ 2 * edist <= longest
                             \/ /\ Len(shorter) >= 2
                                /\ \/ StartsWith(longer, shorter)
                                   \/ EndsWith(longer, shorter)))

\* the comparison proper (lines 1089-1111): word <= other_word, shared edge
\* fillers stripped
Compare(word, other_word) ==
    LET longest == IF Len(word) > Len(other_word) THEN Len(word) ELSE Len(other_word)
        shorter == IF Len(word) < Len(other_word) THEN word ELSE other_word
        longer == IF Len(word) < Len(other_word) THEN other_word ELSE word
        both == ConsonantsOf(word) # {} /\ ConsonantsOf(other_word) # {}
    IN IF longest = 0 THEN Raised("ZeroDivisionError")
       ELSE Then(editdistance(word, other_word),
                 LAMBDA edist :
                    Returned(edist,
                             /\ \/ 2 * edist <= longest
                                \/ /\ Len(shorter) >= 2
                                   /\ \/ StartsWith(longer, shorter)
                                      \/ EndsWith(longer, shorter)
                             /\ both => ConsonantsOf(word) \cap ConsonantsOf(other_word) # {}))

\* calc_distance with the leading filler stripped whenever 'word' starts with
\* one, whatever 'other_word' starts with
RECURSIVE calc_distance_strip_one_sided(_, _)
calc_distance_strip_one_sided(word, other_word) ==
    IF StartsWith(word, <<SCHWA>>)
    THEN calc_distance_strip_one_sided(Tail(word), SubSeq(other_word, 2, Len(other_word)))
    ELSE IF EndsWith(word, <<SCHWA>>) /\ EndsWith(other_word, <<SCHWA>>)
    THEN calc_distance_strip_one_sided(DropLast(word), DropLast(other_word))
    ELSE IF StrLess(other_word, word)
    THEN calc_distance_strip_one_sided(other_word, word)
    ELSE Compare(word, other_word)

\* calc_distance without the stripping of a shared final filler
RECURSIVE calc_distance_keep_final_filler(_, _)
calc_distance_keep_final_filler(word, other_word) ==
    IF StartsWith(word, <<SCHWA>>) /\ StartsWith(other_word, <<SCHWA>>)
    THEN calc_distance_keep_final_filler(Tail(word), Tail(other_word))
    ELSE IF StrLess(other_word, word)
    THEN calc_distance_keep_final_filler(other_word, word)
    ELSE Compare(word, other_word)

RECURSIVE calc_distance(_, _)
calc_distance(word, other_word) ==
    IF StartsWith(word, <<SCHWA>>) /\ StartsWith(other_word, <<SCHWA>>)
    THEN calc_distance(Tail(word), Tail(other_word))
    ELSE IF EndsWith(word, <<SCHWA>>) /\ EndsWith(other_word, <<SCHWA>>)
    THEN calc_distance(DropLast(word), DropLast(other_word))
    ELSE IF StrLess(other_word, word)
    THEN calc_distance(other_word, word)
    ELSE Compare(word, other_word)

(***************************************************************************)
(* Candidates, their scores and their exported form                        *)
(***************************************************************************)
\* the source languages, in the order of _sourcelang_list, and the auxlangs
\* among them
SOURCE_LANGS == <<"en", "es", "eo">>
LangCodes == {SOURCE_LANGS[i] : i \in 1..Len(SOURCE_LANGS)}
auxlangs == {"eo"}

\* a fraction <<numerator, denominator>> with a positive denominator stands
\* for a float score
FracLess(x, y) == x[1] * y[2] < y[1] * x[2]
FracEq(x, y) == x[1] * y[2] = y[1] * x[2]

\* Candidate(word, penalty, lang, ...): raw_psim and simscore start at -1, and
\* related_cands has no key (an empty list stands for an absent key)
Candidate(word, penalty, lang) ==
    [word |-> word, penalty |-> penalty, lang |-> lang, raw_psim |-> -1,
     simscore |-> <<-1, 1>>, related_cands |-> [l \in LangCodes |-> <<>>]]

\* max(1 - penalty / 5.0, 0.0)
dscore(c) == IF c.penalty >= 5 THEN <<0, 5>> ELSE <<5 - c.penalty, 5>>

\* simscore * dscore
total_score(c) == <<c.simscore[1] * dscore(c)[1], c.simscore[2] * dscore(c)[2]>>

count_related_natlang_cands(c) ==
    Cardinality({l \in LangCodes : c.related_cands[l] # <<>> /\ l \notin auxlangs})

\* s with F applied to every element, first to last
SeqMap(s, F(_)) ==
    LET f[k \in 0..Len(s)] == IF k = 0 THEN <<>> ELSE Append(f[k - 1], F(s[k]))
    IN f[Len(s)]

\* W_RE.sub / Y_RE.sub: a semivowel after a vowel and not before one is written
\* as a vowel
SemivowelSpelling(w, semi, vowel) ==
    ReSub(w,
          LAMBDA x, i : IF Matches(x, i, <<INTERNAL_VOWELS, {semi}>>)
                           /\ At(x, i + 2) \notin INTERNAL_VOWELS
                        THEN 2 ELSE 0,
          LAMBDA x, i : <<x[i], vowel>>)

\* EXPORT_REPL, in the order of the dictionary
EXPORT_REPL ==
    << << <<"s", "h">>, <<"s", "-", "h">> >>,
       << <<"C">>, <<"c", "h">> >>,
       << <<"N", "g">>, <<"n", "g">> >>,
       << <<"N", "k">>, <<"n", "k">> >>,
       << <<"N">>, <<"n", "g">> >>,
       << <<"S">>, <<"s", "h">> >>,
       << <<SCHWA>>, <<"e">> >> >>

\* the loop 'for key, value in repl.items(): word = word.replace(key, value)'
RECURSIVE ReplaceAll(_, _, _)
ReplaceAll(w, repl, k) ==
    IF k = 0 THEN w
    ELSE Then(ReplaceAll(w, repl, k - 1),
              LAMBDA v : Replace(v, repl[k][1], repl[k][2]))

export_word(word) ==
    Then(Then(SemivowelSpelling(word, "w", "u"),
              LAMBDA v : SemivowelSpelling(v, "y", "i")),
         LAMBDA v : ReplaceAll(v, EXPORT_REPL, Len(EXPORT_REPL)))

\* NORM_REPL, in the order of the dictionary
NORM_REPL ==
    << << <<"v">>, <<"u">> >>, << <<"w">>, <<"u">> >>, << <<"y">>, <<"i">> >>,
       << <<"z">>, <<"s">> >>, << <<"-">>, <<>> >> >>

\* str.lower() on the characters of the model
Lower(w) ==
    [i \in 1..Len(w) |->
        CASE w[i] = "C" -> "c" [] w[i] = "N" -> "n" [] w[i] = "S" -> "s"
          [] w[i] = "X" -> "x" [] w[i] = "K" -> "k" [] OTHER -> w[i]]

normalize_word(word) ==
    Then(Then(SelectSeq(Lower(word), LAMBDA c : c # " "),
              LAMBDA v : IF EndsWith(v, <<"n", "g">>) THEN DropLast(v) ELSE v),
         LAMBDA v : ReplaceAll(v, NORM_REPL, Len(NORM_REPL)))

\* count_vowels_internal
count_vowels_internal(word) ==
    Cardinality({i \in 1..Len(word) : Lower(word)[i] \in INTERNAL_VOWELS})

\* Candidate.syllables, in half syllables
syllables(c) ==
    LET count == count_vowels_internal(c.word) IN
    IF count # 0 /\ c.word[1] \in INTERNAL_VOWELS /\ c.word[Len(c.word)] \in INTERNAL_VOWELS
    THEN 2 * count - 1 ELSE 2 * count

\* Constraints.fails: the reason the candidate fails a constraint, "" if none;
\* cand_word is cand.export_word().  max_syllables is a set, empty for None,
\* or holding the limit in half syllables; allowed_langs is a set, empty for
\* None; skip maps exported words to rationales; chosen is <<>> for None.
fails(constraints, c, cand_word) ==
    IF \E m \in constraints.max_syllables : syllables(c) > m
    THEN "too long"
    ELSE IF constraints.allowed_langs # {} /\ c.lang # ""
            /\ c.lang \notin constraints.allowed_langs
    THEN constraints.allowed_langs_rationale
    ELSE IF cand_word \in DOMAIN constraints.skip
    THEN constraints.skip[cand_word]
    ELSE IF constraints.chosen # <<>> /\ cand_word # constraints.chosen
    THEN "not the chosen candidate"
    ELSE ""

(***************************************************************************)
(* VocBuilder.calc_sim_penalties and store_normalized_sim_penalties        *)
(***************************************************************************)
\* the candidates map is a list of entries [lang, cands] in insertion order;
\* a candidate is referred to by <<language key, position in the list>>
Entry(cmap, lang) == cmap[CHOOSE i \in 1..Len(cmap) : cmap[i].lang = lang]
Cand(cmap, ref) == Entry(cmap, ref[1]).cands[ref[2]]
Refs(entry) == [j \in 1..Len(entry.cands) |-> <<entry.lang, j>>]

\* min_dist starts at this value (line 1129)
MIN_DIST_START == 1000

MinOf(S) == CHOOSE m \in S : \A n \in S : m <= n
MaxOf(S) == CHOOSE m \in S : \A n \in S : m >= n

\* the inner loop with min_dist overwritten by every distance
AgainstLangLastDistance(entry, ds) ==
    [raised |-> \E j \in 1..Len(ds) : ds[j].raised # "",
     min_dist |-> IF ds = <<>> THEN MIN_DIST_START ELSE ds[Len(ds)].edist,
     related |-> SelectSeq(Refs(entry), LAMBDA r : ds[r[2]].related)]

\* the inner loop (lines 1129-1139) for one candidate and one other language,
\* on the calc_distance results ds: min_dist, the related candidates, and
\* whether calc_distance raised
AgainstLang(entry, ds) ==
    [raised |-> \E j \in 1..Len(ds) : ds[j].raised # "",
     min_dist |-> MinOf({MIN_DIST_START} \cup {ds[j].edist : j \in 1..Len(ds)}),
     related |-> SelectSeq(Refs(entry), LAMBDA r : ds[r[2]].related)]

\* the loop over the other languages without the test for the own language
OtherLangOwnIncluded(c, lang, entry) ==
    IF entry.lang = "" \/ entry.cands = <<>>
    THEN [raised |-> FALSE, min_dist |-> 0, related |-> <<>>]
    ELSE Then(SeqMap(entry.cands, LAMBDA o : calc_distance(c.word, o.word)),
              LAMBDA ds : AgainstLang(entry, ds))

\* one other language for one candidate: skipped (line 1127), or compared
OtherLang(c, lang, entry) ==
    IF entry.lang = lang \/ entry.lang = "" \/ entry.cands = <<>>
    THEN [raised |-> FALSE, min_dist |-> 0, related |-> <<>>]
    ELSE Then(SeqMap(entry.cands, LAMBDA o : calc_distance(c.word, o.word)),
              LAMBDA ds : AgainstLang(entry, ds))

\* the sum of the min_dist of rs
SumMinDist(rs) ==
    LET f[k \in 0..Len(rs)] == IF k = 0 THEN 0 ELSE f[k - 1] + rs[k].min_dist
    IN f[Len(rs)]

\* the body of 'for cand in my_cands' (lines 1125-1142) on the results rs of
\* the loop over the other languages
WithPenalties(c, cmap, rs) ==
    [c EXCEPT
        !.raw_psim = SumMinDist(rs),
        !.related_cands =
            [l \in LangCodes |->
                IF \E i \in 1..Len(cmap) : cmap[i].lang = l
                THEN c.related_cands[l]
                     \o rs[CHOOSE i \in 1..Len(cmap) : cmap[i].lang = l].related
                ELSE c.related_cands[l]]]

\* calc_sim_penalties(lang, candidates): the map afterwards, or raised
calc_sim_penalties(lang, cmap) ==
    Then(SeqMap(Entry(cmap, lang).cands,
                LAMBDA c : Then(SeqMap(cmap, LAMBDA e : OtherLang(c, lang, e)),
                                LAMBDA rs : [raised |-> \E i \in 1..Len(rs) : rs[i].raised,
                                             cand |-> WithPenalties(c, cmap, rs)])),
         LAMBDA done :
            [raised |-> \E k \in 1..Len(done) : done[k].raised,
             candidates |->
                [i \in 1..Len(cmap) |->
                    IF cmap[i].lang = lang
                    THEN [cmap[i] EXCEPT !.cands = [k \in 1..Len(done) |-> done[k].cand]]
                    ELSE cmap[i]]])

\* the list 'result' of store_normalized_sim_penalties (lines 1159-1163)
RECURSIVE ShownCands(_, _, _)
ShownCands(cmap, hide_pseudo, n) ==
    IF n = 0 THEN <<>>
    ELSE ShownCands(cmap, hide_pseudo, n - 1)
         \o (IF cmap[n].cands # <<>> /\ (cmap[n].cands[1].lang # "" \/ ~hide_pseudo)
             THEN Refs(cmap[n]) ELSE <<>>)

\* the simscore without the final '+ 1'
SimscoreNotShifted(raw_psim, min_psim, diff) ==
    IF diff # 0 THEN <<min_psim - raw_psim, diff>> ELSE <<1, 1>>

\* the simscore not inverted: the raw penalty normalized as it is
SimscoreNotInverted(raw_psim, min_psim, diff) ==
    IF diff # 0 THEN <<raw_psim - min_psim, diff>> ELSE <<1, 1>>

\* the simscore of a candidate of the result (lines 1175-1185)
Simscore(raw_psim, min_psim, diff) ==
    IF diff # 0 THEN <<(min_psim - raw_psim) + diff, diff>> ELSE <<1, 1>>

\* store_normalized_sim_penalties(candidates): the map afterwards and the
\* list returned
store_normalized_sim_penalties(cmap, hide_pseudo) ==
    Then(ShownCands(cmap, hide_pseudo, Len(cmap)),
         LAMBDA res :
            LET raws == {Cand(cmap, res[k]).raw_psim : k \in 1..Len(res)}
                min_psim == IF res # <<>> THEN MinOf(raws) ELSE 0
                diff == IF res # <<>> THEN MaxOf(raws) - MinOf(raws) ELSE 0
                shown == {res[k] : k \in 1..Len(res)}
            IN [result |-> res,
                candidates |->
                    [i \in 1..Len(cmap) |->
                        [cmap[i] EXCEPT !.cands =
                            [j \in 1..Len(cmap[i].cands) |->
                                IF <<cmap[i].lang, j>> \in shown
                                THEN [cmap[i].cands[j] EXCEPT !.simscore =
                                        Simscore(cmap[i].cands[j].raw_psim, min_psim, diff)]
                                ELSE cmap[i].cands[j]]]]])

(***************************************************************************)
(* VocBuilder.print_cands                                                  *)
(***************************************************************************)
\* the sort key of a candidate: (-count_related_natlang_cands(), -total_score,
\* export_word()), kept without the signs
SortKey(c) ==
    [count |-> count_related_natlang_cands(c), total |-> total_score(c),
     word |-> export_word(c.word)]

\* key x sorts before key y, with the total score ascending
KeyBeforeAscendingScore(x, y) ==
    \/ x.count > y.count
    \/ /\ x.count = y.count
       /\ \/ FracLess(x.total, y.total)
          \/ FracEq(x.total, y.total) /\ StrLess(x.word, y.word)

\* key x sorts before key y: Python's tuple comparison on the key
KeyBefore(x, y) ==
    \/ x.count > y.count
    \/ /\ x.count = y.count
       /\ \/ FracLess(y.total, x.total)
          \/ FracEq(x.total, y.total) /\ StrLess(x.word, y.word)

\* sorted(): a stable sort of the keyed items ks[1..n]
RECURSIVE SortedTo(_, _)
SortedTo(ks, n) ==
    IF n = 0 THEN <<>>
    ELSE Then(SortedTo(ks, n - 1),
              LAMBDA s :
                 LET m == Cardinality({i \in 1..Len(s) : ~KeyBefore(ks[n].key, s[i].key)})
                 IN SubSeq(s, 1, m) \o <<ks[n]>> \o SubSeq(s, m + 1, Len(s)))

\* a candidate of cand_list with what the loop of print_cands derives from it:
\* the sort key and norm_word (export_word and normalize_word are cached)
Keyed(cmap, ref) ==
    Then([ref |-> ref, c |-> Cand(cmap, ref), key |-> SortKey(Cand(cmap, ref))],
         LAMBDA it : [ref |-> it.ref, c |-> it.c, key |-> it.key,
                      norm_word |-> normalize_word(it.key.word)])

\* sorted(cand_list, key=...): the candidates in the order of the loop of
\* print_cands
Sorted(cmap, list) ==
    Then(SeqMap(list, LAMBDA ref : Keyed(cmap, ref)),
         LAMBDA ks : SortedTo(ks, Len(ks)))

\* best_score (line 1937) and the candidates the loop flags with a star
\* (line 1948): those whose total_score equals the lowest one
StarredLowestScore(sorted) ==
    {sorted[k].ref : k \in {i \in 1..Len(sorted) :
        \A j \in 1..Len(sorted) : ~FracLess(sorted[j].key.total, sorted[i].key.total)}}

\* best_score (line 1937) and the candidates the loop flags with a star
\* (line 1948): those whose total_score equals best_score
Starred(sorted) ==
    {sorted[k].ref : k \in {i \in 1..Len(sorted) :
        \A j \in 1..Len(sorted) : ~FracLess(sorted[i].key.total, sorted[j].key.total)}}

\* the branches of the loop body with 'dscore < 0.6' as the distortion test
SkipReasonBelowThreshold(it, args) ==
    IF it.norm_word \in args.existing_norm_words /\ ~args.allowduplicates
    THEN "word exists already"
    ELSE IF Len(it.c.word) < args.min_length THEN "too short"
    ELSE IF dscore(it.c)[1] < 3 THEN "too distorted"
    ELSE IF args.constraints # <<>> /\ fails(args.constraints[1], it.c, it.key.word) # ""
    THEN "constraint"
    ELSE ""

\* the branch of the loop body a candidate takes: the reason it is skipped,
\* "" if it is numbered and returned; args.constraints is <<>> for None
SkipReason(it, args) ==
    IF it.norm_word \in args.existing_norm_words /\ ~args.allowduplicates
    THEN "word exists already"
    ELSE IF Len(it.c.word) < args.min_length THEN "too short"
    ELSE IF dscore(it.c)[1] <= 3 THEN "too distorted"
    ELSE IF args.constraints # <<>> /\ fails(args.constraints[1], it.c, it.key.word) # ""
    THEN "constraint"
    ELSE ""

\* the list print_cands returns, from the sorted candidates
Numbered(sorted, args) == SelectSeq(sorted, LAMBDA it : SkipReason(it, args) = "")

\* the candidates of a sorted list
RefsOf(sorted) == [k \in 1..Len(sorted) |-> sorted[k].ref]

(***************************************************************************)
(* Bounds and input sets                                                   *)
(***************************************************************************)
Words(letters, lens) == UNION {[1..n -> letters] : n \in lens}

\* repair: the pre-repair words, the languages with rules of their own (and
\* "xx" for every other language), the calls made on one Candidate
MaxRepairLen == 3
MaxCalls == 2
RepairLetters == {"N", "y", "w", "s", "t", "g", "z", "h", "a", SCHWA, " "}
\* longer words in which a filler is inserted between 'N' and 'g'
RepairExtraWords == {<<"a", "t", "N", "g">>, <<"a", "t", "N", "g", "h">>}
RepairLangs == {"xx", "es", "de", "fr", "ru"}

\* distance: every pair of words up to MaxDistLen, and every such word with a
\* copy of itself extended at one end by up to MaxExtLen letters
MaxDistLen == 2
MaxExtLen == 3
DistLetters == {"k", "n", "N", "a", SCHWA}
ExtLetters == {"k", "a"}
DistWords == Words(DistLetters, 0..MaxDistLen)
DistPairs ==
    (DistWords \X DistWords)
    \cup {<<w, w \o e>> : w \in DistWords, e \in Words(ExtLetters, 1..MaxExtLen)}
    \cup {<<w, e \o w>> : w \in DistWords, e \in Words(ExtLetters, 1..MaxExtLen)}

\* scoring: per source language up to MaxCands candidates with different
\* words out of ScorePool, and possibly the word of an Add: constraint or of
\* the --word option under the key ""
MaxCands == 2
KASA == <<"k", "a", "s", "a">>
KASI == <<"k", "a", "s", "i">>
ScorePool ==
    {[word |-> KASA, penalty |-> 0], [word |-> KASI, penalty |-> 0],
     [word |-> <<SCHWA>>, penalty |-> 1]}
\* the candidates of the auxlang: one of them distorted (penalty 2)
KA == <<"k", "a">>
AuxScorePool ==
    {[word |-> KASA, penalty |-> 0], [word |-> KASI, penalty |-> 0],
     [word |-> KA, penalty |-> 2]}
PoolOf(lang) == IF lang \in auxlangs THEN AuxScorePool ELSE ScorePool
CandLists(lang) ==
    {l \in UNION {[1..n -> PoolOf(lang)] : n \in 0..MaxCands} :
        \A i, j \in 1..Len(l) : l[i].word = l[j].word => i = j}
CandListsPerLang ==
    {lists \in [1..Len(SOURCE_LANGS) -> UNION {CandLists(l) : l \in LangCodes}] :
        \A i \in 1..Len(SOURCE_LANGS) : lists[i] \in CandLists(SOURCE_LANGS[i])}
SpecifiedWords == {KASA}

\* the inputs of print_cands: min_length() returns 1 or 3
MinLengths == {1, 3}
ExistingChoices ==
    {[existing_norm_words |-> {}, allowduplicates |-> FALSE],
     [existing_norm_words |-> {normalize_word(export_word(KASA))}, allowduplicates |-> FALSE],
     [existing_norm_words |-> {normalize_word(export_word(KASA))}, allowduplicates |-> TRUE]}
NoConstraints ==
    [max_syllables |-> {}, allowed_langs |-> {}, allowed_langs_rationale |-> "",
     skip |-> <<>>, chosen |-> <<>>]
ConstraintChoices ==
    {<<>>,
     <<[NoConstraints EXCEPT !.max_syllables = {2}]>>,
     <<[NoConstraints EXCEPT !.allowed_langs = {"en", "eo"},
                             !.allowed_langs_rationale = "only these",
                             !.skip = (export_word(KASI) :> "")]>>,
     <<[NoConstraints EXCEPT !.chosen = export_word(KASA)]>>}

(***************************************************************************)
(* The repair of one Candidate (build_candidates_for_lang: repair, then    *)
(* validate)                                                               *)
(***************************************************************************)
NoRepair ==
    /\ cand = <<>> /\ orig = <<>> /\ first = <<>> /\ calls = 0 /\ valErr = "unset"
NoDistance == dargs = <<>> /\ dres = <<>>
NoScoring ==
    /\ candidates = <<>> /\ word_arg = FALSE /\ lang_i = 0 /\ cand_list = <<>>
    /\ pargs = <<>> /\ ranked = <<>> /\ eligible = <<>> /\ starred = {}
NoBuild ==
    /\ candi_cache = <<>> /\ schwastrip = FALSE /\ mk_word = <<>>
    /\ mk_calls = <<>> /\ builds = <<>>
NoFallback == active_fallbacks = {} /\ fb_calls = <<>>
NoSelect ==
    /\ existing_words_dict = {} /\ existing_norm_words = {} /\ allowduplicates = FALSE
    /\ line = <<>> /\ selections = <<>>
NoFile == [exists |-> FALSE, text |-> <<>>]
NoLog ==
    /\ messages = <<>> /\ stdout = <<>> /\ logfile = NoFile /\ backup = <<>>
    /\ log_start = NoFile /\ log_calls = <<>>
NoConcepts == concepts = <<>>
NoRest == NoFallback /\ NoSelect /\ NoLog /\ NoConcepts

InitRepair ==
    /\ pc = "repair"
    /\ orig \in Words(RepairLetters, 1..MaxRepairLen) \cup RepairExtraWords
    /\ cand \in [word : {orig}, penalty : {0}, lang : RepairLangs, eil : BOOLEAN,
                 filled : {FALSE}]
    /\ cand.eil => cand.lang = "fr"
    /\ first = <<>>
    /\ calls = 0
    /\ valErr = "unset"
    /\ NoDistance
    /\ NoScoring
    /\ NoBuild
    /\ NoRest

\* cand.insert_filler_vowels()
InsertFillerVowels ==
    /\ pc = "repair"
    /\ calls < MaxCalls
    /\ cand' = insert_filler_vowels(cand)
    /\ first' = IF calls = 0 THEN cand' ELSE first
    /\ calls' = calls + 1
    /\ valErr' = "unset"
    /\ UNCHANGED <<pc, orig, distVars, scoreVars, buildVars, restVars>>

\* val_err = cand.validate()
Validate ==
    /\ pc = "repair"
    /\ valErr = "unset"
    /\ valErr' = validate(cand.word)
    /\ UNCHANGED <<pc, cand, orig, first, calls, distVars, scoreVars, buildVars, restVars>>

NextRepair == InsertFillerVowels \/ Validate

SpecRepair == InitRepair /\ [][NextRepair]_vars

(***************************************************************************)
(* calc_distance on a pair of words                                        *)
(***************************************************************************)
\* the calls studied on the pair (a, b), in order
DistCalls(a, b) ==
    << <<a, b>>, <<b, a>>, <<a \o <<SCHWA>>, b \o <<SCHWA>> >>,
       << <<SCHWA>> \o a, <<SCHWA>> \o b>> >>

InitDistance ==
    /\ pc = "distance"
    /\ dargs \in DistPairs
    /\ dres = <<>>
    /\ NoRepair
    /\ NoScoring
    /\ NoBuild
    /\ NoRest

\* VocBuilder.calc_distance(word, other_word), on the next pair of DistCalls
CalcDistance ==
    /\ pc = "distance"
    /\ Len(dres) < Len(DistCalls(dargs[1], dargs[2]))
    /\ \E args \in {DistCalls(dargs[1], dargs[2])[Len(dres) + 1]} :
          dres' = Append(dres, calc_distance(args[1], args[2]))
    /\ UNCHANGED <<pc, dargs, repairVars, scoreVars, buildVars, restVars>>

NextDistance == CalcDistance

SpecDistance == InitDistance /\ [][NextDistance]_vars

(***************************************************************************)
(* select_candidate: the similarity penalties of every language, the       *)
(* normalized scores, the ranked list                                      *)
(***************************************************************************)
\* the map build_candidates returns: a key for every source language with
\* candidates, then the key "" of the specified word (<<>>: none)
CandidatesMap(lists, specified) ==
    LET all == [i \in 1..Len(SOURCE_LANGS) |->
                    [lang |-> SOURCE_LANGS[i],
                     cands |-> [k \in 1..Len(lists[i]) |->
                                   Candidate(lists[i][k].word, lists[i][k].penalty,
                                             SOURCE_LANGS[i])]]]
    IN SelectSeq(all, LAMBDA e : e.cands # <<>>)
       \o (IF specified # <<>>
           THEN <<[lang |-> "", cands |-> <<Candidate(specified, 0, "")>>]>>
           ELSE <<>>)

Init ==
    /\ pc = "penalties"
    /\ candidates \in {CandidatesMap(lists, specified) :
                          lists \in CandListsPerLang,
                          specified \in SpecifiedWords \cup {<<>>}}
    /\ word_arg \in BOOLEAN
    /\ word_arg => \E i \in 1..Len(candidates) : candidates[i].lang = ""
    /\ lang_i = 0
    /\ cand_list = <<>>
    /\ pargs = <<>>
    /\ ranked = <<>>
    /\ eligible = <<>>
    /\ starred = {}
    /\ NoRepair
    /\ NoDistance
    /\ NoBuild
    /\ NoRest

\* one round of 'for lang in candidates: self.calc_sim_penalties(lang,
\* candidates)'; an exception ends the run
CalcSimPenalties ==
    /\ pc = "penalties"
    /\ lang_i < Len(candidates)
    /\ \E r \in {calc_sim_penalties(candidates[lang_i + 1].lang, candidates)} :
          IF r.raised
          THEN pc' = "raised" /\ UNCHANGED <<candidates, lang_i>>
          ELSE pc' = pc /\ candidates' = r.candidates /\ lang_i' = lang_i + 1
    /\ UNCHANGED <<word_arg, cand_list, pargs, ranked, eligible, starred, repairVars,
                   distVars, buildVars, restVars>>

\* cand_list = self.store_normalized_sim_penalties(candidates)
StoreNormalizedSimPenalties ==
    /\ pc = "penalties"
    /\ lang_i = Len(candidates)
    /\ \E r \in {store_normalized_sim_penalties(candidates, word_arg)} :
          candidates' = r.candidates /\ cand_list' = r.result
    /\ pc' = "print"
    /\ UNCHANGED <<word_arg, lang_i, pargs, ranked, eligible, starred, repairVars,
                   distVars, buildVars, restVars>>

\* sorted_eligible_list = self.print_cands(cand_list, min_length, constraints)
PrintCands ==
    /\ pc = "print"
    /\ \E sorted \in {Sorted(candidates, cand_list)} :
       \E min_length \in MinLengths, ex \in ExistingChoices,
          constraints \in ConstraintChoices :
          /\ pargs' = [min_length |-> min_length, constraints |-> constraints,
                       existing_norm_words |-> ex.existing_norm_words,
                       allowduplicates |-> ex.allowduplicates]
          /\ ranked' = RefsOf(sorted)
          /\ eligible' = RefsOf(Numbered(sorted, pargs'))
          /\ starred' = Starred(sorted)
    /\ pc' = "done"
    /\ UNCHANGED <<candidates, word_arg, lang_i, cand_list, repairVars, distVars,
                   buildVars, restVars>>

Next == CalcSimPenalties \/ StoreNormalizedSimPenalties \/ PrintCands

Spec == Init /\ [][Next]_vars

(***************************************************************************)
(* VocBuilder.mk_candidate: from a source word to a Candidate, through the *)
(* candidate cache                                                         *)
(***************************************************************************)
\* Optional[Candidate]: None, or the one Candidate object
None == <<>>
Some(c) == <<c>>

\* the characters of the model whose Unicode name starts with LATIN
LATIN_LETTERS == ALL_CONSONANTS \cup INTERNAL_VOWELS \cup {"K", "X", "c", "x"}

has_latin_letter(text) == \E i \in 1..Len(text) : text[i] \in LATIN_LETTERS

\* str.find(ch) + 1: the first position of ch in text, 0 if there is none
Find(text, ch) ==
    LET at == {i \in 1..Len(text) : text[i] = ch}
    IN IF at = {} THEN 0 ELSE CHOOSE i \in at : \A j \in at : i <= j

\* str.strip(): without the white space at both ends
strip(text) ==
    LET ns == {i \in 1..Len(text) : text[i] # " "}
    IN IF ns = {} THEN <<>>
       ELSE SubSeq(text, CHOOSE i \in ns : \A j \in ns : i <= j,
                   CHOOSE i \in ns : \A j \in ns : i >= j)

\* mk_candidate strips a comment in parentheses: a word ending in ')' is cut
\* at its first '('
StripComment(word) ==
    IF EndsWith(word, <<")">>)
    THEN LET start_idx == Find(word, "(")
         IN IF start_idx >= 1 THEN strip(SubSeq(word, 1, start_idx - 1)) ELSE word
    ELSE word

\* the Candidate object mk_candidate constructs ('eil' is what the repair
\* reads off 'original': no original of the model holds 'eil' or 'ille')
NewCandidate(word, penalty, lang, original) ==
    [word |-> word, penalty |-> penalty, lang |-> lang, eil |-> FALSE,
     filled |-> FALSE, original |-> original]

Conversion(output, penalty) == [output |-> output, penalty |-> penalty]

\* the rows of a conversion file phon_ko.csv: one-letter keys and a
\* two-letter key whose conversion has a penalty
KoRows ==
    (<<"k">> :> Conversion(<<"k">>, FALSE)) @@ (<<"a">> :> Conversion(<<"a">>, FALSE))
    @@ (<<"d">> :> Conversion(<<"d">>, FALSE)) @@ (<<"h">> :> Conversion(<<"h">>, FALSE))
    @@ (<<"k", "h">> :> Conversion(<<"k">>, TRUE))

\* read_conversion_dict: the rows of the file, and white space for ' ', '-'
\* and '.' unless the file lists them
read_conversion_dict(rows) ==
    [key \in DOMAIN rows \cup {<<" ">>, <<"-">>, <<".">>} |->
        IF key \in DOMAIN rows THEN rows[key] ELSE Conversion(<<" ">>, FALSE)]

\* self.convdicts and self.maxkeylengths: "ko" has a conversion file, no
\* other language of the model has one
convdicts == [name \in {"ko"} |-> read_conversion_dict(KoRows)]
maxkeylengths ==
    [name \in DOMAIN convdicts |->
        CHOOSE n \in {Len(key) : key \in DOMAIN convdicts[name]} :
            \A key \in DOMAIN convdicts[name] : Len(key) <= n]

\* preprocess_candidate_word for a language without a branch of its own:
\* lower case (no word of the model holds a zero-width non-joiner)
preprocess_candidate_word(word, conv_dict_name, cls) == Lower(word)

\* the same search counting up: the shortest key
FindMatchShortest(convdict, rest_word, idx) ==
    LET hits == {i \in 1..idx : SubSeq(rest_word, 1, i) \in DOMAIN convdict}
    IN IF hits = {} THEN 0 ELSE CHOOSE i \in hits : \A j \in hits : i <= j

\* 'for idx in range(min(maxkeylen, len(rest_word)), 0, -1)': the first idx,
\* counting down, at which rest_word[0:idx] is a key; 0 if there is none
RECURSIVE FindMatch(_, _, _)
FindMatch(convdict, rest_word, idx) ==
    IF idx = 0 THEN 0
    ELSE IF SubSeq(rest_word, 1, idx) \in DOMAIN convdict THEN idx
    ELSE FindMatch(convdict, rest_word, idx - 1)

\* one iteration of 'while rest_word:' of mk_candidate on the state s of its
\* local variables; 'rounds' counts the iterations, 'copied' the characters
\* copied with a warning
ConvertRound(convdict, maxkeylen, s) ==
    LET idx == FindMatch(convdict, s.rest_word, Min2(maxkeylen, Len(s.rest_word)))
        conv == convdict[SubSeq(s.rest_word, 1, idx)]
    IN IF idx > 0
       THEN [out_word |-> s.out_word \o conv.output,
             penalty |-> s.penalty + (IF conv.penalty THEN 1 ELSE 0),
             rest_word |-> SubSeq(s.rest_word, idx + 1, Len(s.rest_word)),
             rounds |-> s.rounds + 1, copied |-> s.copied]
       ELSE [out_word |-> Append(s.out_word, s.rest_word[1]),
             penalty |-> s.penalty,
             rest_word |-> Tail(s.rest_word),
             rounds |-> s.rounds + 1, copied |-> s.copied + 1]

\* 'while rest_word:'
RECURSIVE ConvertLoop(_, _, _)
ConvertLoop(convdict, maxkeylen, s) ==
    IF s.rest_word = <<>> THEN s
    ELSE Then(ConvertRound(convdict, maxkeylen, s),
              LAMBDA t : ConvertLoop(convdict, maxkeylen, t))

\* the conversion of the preprocessed word by the table of conv_dict_name
Convert(word, conv_dict_name) ==
    ConvertLoop(convdicts[conv_dict_name], maxkeylengths[conv_dict_name],
                [out_word |-> <<>>, penalty |-> 0, rest_word |-> word, rounds |-> 0,
                 copied |-> 0])

\* postprocess_candidate on one word of the candidate: the rules of every
\* language, then the infinitive marker of a verb ("ko": a final 'da')
PostprocessWord(word0, conv_dict_name, cls) ==
    LET w1 == Replace(word0, <<"n", "g">>, <<"N", "g">>)
        w2 == Replace(w1, <<"n", "k">>, <<"N", "k">>)
        w3 == Replace(w2, <<"t", "S">>, <<"C">>)
        w4 == Replace(w3, <<"d", "j">>, <<"j">>)
        w5 == ReSub(w4,
                    LAMBDA x, i :
                        IF /\ At(x, i) = "N"
                           /\ \/ Matches(x, i + 1, <<INTERNAL_VOWELS>>)
                              \/ Matches(x, i + 1, <<SECOND_CONSONANTS, INTERNAL_VOWELS>>)
                        THEN 1 ELSE 0,
                    LAMBDA x, i : <<"N", "g">>)
        w6 == IF EndsWith(w5, <<"N", "g">>) THEN SubSeq(w5, 1, Len(w5) - 1) ELSE w5
    IN IF cls = "verb" /\ conv_dict_name = "ko" /\ EndsWith(w6, <<"d", "a">>)
       THEN SubSeq(w6, 1, Len(w6) - 2)
       ELSE w6

postprocess_candidate(candidate, original, conv_dict_name, cls) ==
    LET words == Split(candidate)
    IN Join([k \in 1..Len(words) |-> PostprocessWord(words[k], conv_dict_name, cls)])

\* the conversion of the stripped word by the table of conv_dict_name: the
\* Candidate, and the run of the conversion loop
Converted(stripped, langcode, conv_dict_name, cls) ==
    Then(preprocess_candidate_word(stripped, conv_dict_name, cls),
         LAMBDA pre :
             Then(Convert(pre, conv_dict_name),
                  LAMBDA s :
                      [result |-> Some(NewCandidate(
                                      postprocess_candidate(s.out_word, pre,
                                                            conv_dict_name, cls),
                                      s.penalty, langcode, stripped)),
                       loop |-> <<[input |-> pre, out_word |-> s.out_word,
                                   penalty |-> s.penalty, rounds |-> s.rounds,
                                   copied |-> s.copied]>>]))

\* what mk_candidate makes of a word the cache does not hold
Uncached(word, langcode, conv_dict_name, cls) ==
    Then(StripComment(word),
         LAMBDA stripped :
             IF ~(stripped # <<>> /\ has_latin_letter(stripped))
             THEN [result |-> None, loop |-> <<>>]
             ELSE IF conv_dict_name \notin DOMAIN convdicts
             THEN [result |-> Some(NewCandidate(Lower(stripped), 0, langcode, stripped)),
                   loop |-> <<>>]
             ELSE Converted(stripped, langcode, conv_dict_name, cls))

\* mk_candidate(word, langcode, conv_dict_name, cls) on the cache: the cache
\* afterwards, the result, whether the cache had the key, and the run of the
\* conversion loop (<<>>: the loop did not run)
mk_candidate(cache, word, langcode, conv_dict_name, cls) ==
    IF <<langcode, word>> \in DOMAIN cache
    THEN [cache |-> cache, key |-> <<langcode, word>>,
          result |-> cache[<<langcode, word>>], hit |-> TRUE, loop |-> <<>>]
    ELSE Then(Uncached(word, langcode, conv_dict_name, cls),
              LAMBDA u : [cache |-> cache @@ (<<langcode, word>> :> u.result),
                          key |-> <<langcode, word>>, result |-> u.result,
                          hit |-> FALSE, loop |-> u.loop])

(***************************************************************************)
(* VocBuilder.build_candidates_for_lang: the candidates of one language    *)
(***************************************************************************)
\* util.extract_text_in_brackets: the text between '[' and ']', or the whole
\* text (None, here <<>>, unless otherwise_return_fully)
extract_text_in_brackets(text, otherwise_return_fully) ==
    LET start == Find(text, "[")
        end == Find(text, "]")
    IN IF start # 0 /\ end > start THEN SubSeq(text, start + 1, end - 1)
       ELSE IF otherwise_return_fully THEN text ELSE <<>>

\* a strip that takes the penalty of each stripped filler vowel back
SchwastripRefund(c) ==
    LET w1 == IF StartsWith(c.word, <<SCHWA>>) THEN Tail(c.word) ELSE c.word
        w2 == IF EndsWith(w1, <<SCHWA>>) THEN SubSeq(w1, 1, Len(w1) - 1) ELSE w1
    IN [c EXCEPT !.word = w2, !.penalty = @ - (Len(c.word) - Len(w2))]

\* VocBuilder._schwastrip: one filler vowel less at the start, then one less
\* at the end
Schwastrip(c) ==
    LET w1 == IF StartsWith(c.word, <<SCHWA>>) THEN Tail(c.word) ELSE c.word
        w2 == IF EndsWith(w1, <<SCHWA>>) THEN SubSeq(w1, 1, Len(w1) - 1) ELSE w1
    IN [c EXCEPT !.word = w2]

\* every word not yet known is added, valid or not
AddCandidateIfNew(val_err, word, cand_word_set) == word \notin cand_word_set

\* every valid word is added, known or not
AddCandidateIfValid(val_err, word, cand_word_set) == val_err = "None"

\* 'if not (val_err or candidate.word in cand_word_set)': the candidate is
\* added if it is valid and not yet known
AddCandidate(val_err, word, cand_word_set) ==
    val_err = "None" /\ word \notin cand_word_set

\* the round of a Candidate that mk_candidate returned (m): repair,
\* validation, strip, and the addition to the list
HandleCandidate(s, m, strip_opt) ==
    Then(insert_filler_vowels(m.result[1]),
         LAMBDA filled :
             Then(<<validate(filled.word),
                    IF strip_opt THEN Schwastrip(filled) ELSE filled>>,
                  LAMBDA v :
                      Then(AddCandidate(v[1], v[2].word, s.cand_word_set),
                           LAMBDA add :
                               [cache |-> [m.cache EXCEPT ![m.key] = Some(v[2])],
                                cand_word_set |->
                                    IF add THEN s.cand_word_set \cup {v[2].word}
                                    ELSE s.cand_word_set,
                                cands |-> IF add THEN Append(s.cands, m.key)
                                          ELSE s.cands,
                                rounds |->
                                    Append(s.rounds,
                                           [key |-> m.key, hit |-> m.hit,
                                            made |-> m.result[1], filled |-> filled,
                                            val_err |-> v[1], final |-> v[2],
                                            added |-> add])])))

\* one round of 'for cand_word in raw_cand_words', from the state s of the
\* call: the cache, cand_word_set, cands (the objects, named by their cache
\* keys) and a record of what the rounds did
BuildRound(s, cand_word, langcode, conv_dict_name, cls, strip_opt) ==
    Then(extract_text_in_brackets(cand_word, langcode # "en"),
         LAMBDA raw_cand_word :
             IF raw_cand_word = <<>> THEN s
             ELSE Then(mk_candidate(s.cache, raw_cand_word, langcode, conv_dict_name,
                                    cls),
                       LAMBDA m : IF m.result = None THEN [s EXCEPT !.cache = m.cache]
                                  ELSE HandleCandidate(s, m, strip_opt)))

RECURSIVE BuildRounds(_, _, _, _, _, _, _)
BuildRounds(cache, raw_cand_words, k, langcode, conv_dict_name, cls, strip_opt) ==
    IF k = 0
    THEN [cache |-> cache, cand_word_set |-> {}, cands |-> <<>>, rounds |-> <<>>]
    ELSE Then(BuildRounds(cache, raw_cand_words, k - 1, langcode, conv_dict_name, cls,
                          strip_opt),
              LAMBDA s : BuildRound(s, raw_cand_words[k], langcode, conv_dict_name, cls,
                                    strip_opt))

\* build_candidates_for_lang(langcode, conv_dict_name, entry) on the cache,
\* for an entry of class cls whose field of the language lists raw_cand_words:
\* the cache afterwards, the list returned (cache keys, and the objects as
\* they are at the return) and the rounds of the loop
build_candidates_for_lang(cache, raw_cand_words, langcode, conv_dict_name, cls, strip_opt) ==
    Then(BuildRounds(cache, raw_cand_words, Len(raw_cand_words), langcode,
                     conv_dict_name, cls, strip_opt),
         LAMBDA s : [cache |-> s.cache, cands |-> s.cands,
                     returned |-> [k \in 1..Len(s.cands) |-> s.cache[s.cands[k]][1]],
                     rounds |-> s.rounds])

\* conversion: every word up to MaxMkLen letters, and two words with a
\* comment in parentheses; up to MaxMkCalls calls on it
MaxMkLen == 4
MaxMkCalls == 2
MkLetters == {"k", "a", "d", "h", "K", "(", ")", " ", "5"}
MkExtraWords ==
    {<<"(", "a", ")", " ", "k", " ", "(", "d", ")">>,
     <<"k", "a", " ", "(", "d", ")">>}
MkWords == Words(MkLetters, 0..MaxMkLen) \cup MkExtraWords
MkLangs == {"ko", "xx"}
WordClasses == {"noun", "verb"}

\* building: up to MaxBuilds calls for entries with up to MaxRawWords words
\* of BuildPool in the field of the language
MaxBuilds == 2
MaxRawWords == 2
BuildPool ==
    {<<"k", "a", "d", "a">>, <<"k", "a", "d">>, <<"k", "a", "5">>, <<"(", "k", ")">>,
     <<"k", "a", SCHWA, SCHWA>>}
RawWordLists == Words(BuildPool, 1..MaxRawWords)

InitConvert ==
    /\ pc = "convert"
    /\ mk_word \in MkWords
    /\ candi_cache = <<>>
    /\ mk_calls = <<>>
    /\ schwastrip = FALSE
    /\ builds = <<>>
    /\ NoRepair
    /\ NoDistance
    /\ NoScoring
    /\ NoRest

\* self.mk_candidate(word, langcode, conv_dict_name, cls)
MkCandidate ==
    /\ pc = "convert"
    /\ Len(mk_calls) < MaxMkCalls
    /\ \E langcode \in MkLangs, cls \in WordClasses :
       \E m \in {mk_candidate(candi_cache, mk_word, langcode, langcode, cls)} :
          /\ candi_cache' = m.cache
          /\ mk_calls' = Append(mk_calls,
                                [langcode |-> langcode, cls |-> cls, hit |-> m.hit,
                                 result |-> m.result, loop |-> m.loop])
    /\ UNCHANGED <<pc, mk_word, schwastrip, builds, repairVars, distVars, scoreVars,
                   restVars>>

NextConvert == MkCandidate

SpecConvert == InitConvert /\ [][NextConvert]_vars

InitBuild ==
    /\ pc = "build"
    /\ schwastrip \in BOOLEAN
    /\ candi_cache = <<>>
    /\ builds = <<>>
    /\ mk_word = <<>>
    /\ mk_calls = <<>>
    /\ NoRepair
    /\ NoDistance
    /\ NoScoring
    /\ NoRest

\* cands = self.build_candidates_for_lang(langcode, langcode, entry)
BuildCandidatesForLang ==
    /\ pc = "build"
    /\ Len(builds) < MaxBuilds
    /\ \E raw_cand_words \in RawWordLists, cls \in WordClasses :
       \E b \in {build_candidates_for_lang(candi_cache, raw_cand_words, "ko", "ko", cls,
                                           schwastrip)} :
          /\ candi_cache' = b.cache
          /\ builds' = Append(builds,
                              [cls |-> cls, raw_cand_words |-> raw_cand_words,
                               cands |-> b.cands, returned |-> b.returned,
                               rounds |-> b.rounds])
    /\ UNCHANGED <<pc, schwastrip, mk_word, mk_calls, repairVars, distVars, scoreVars,
                   restVars>>

NextBuild == BuildCandidatesForLang

SpecBuild == InitBuild /\ [][NextBuild]_vars

(***************************************************************************)
(* VocBuilder.build_candidates: the candidates of every source language,   *)
(* with fallback languages                                                 *)
(***************************************************************************)
\* self._sourcelang_list and self._main_to_fallbacks as
\* _init_source_languages sets them up for a source language 'hi' with the
\* fallbacks 'ur' (converted with the table of 'hi', which has none) and 'ko'
\* (which has a table of its own)
sourcelang_list == <<"hi">>
main_to_fallbacks == [main \in {"hi"} |-> <<"ur", "ko">>]

\* candidates[lang] = cands on a dict kept as the sequence of its items in
\* insertion order
SetKey(cmap, lang, cands) ==
    IF \E i \in 1..Len(cmap) : cmap[i].lang = lang
    THEN [i \in 1..Len(cmap) |->
             IF cmap[i].lang = lang THEN [lang |-> lang, cands |-> cands] ELSE cmap[i]]
    ELSE Append(cmap, [lang |-> lang, cands |-> cands])

Keys(cmap) == {cmap[i].lang : i \in 1..Len(cmap)}

\* the conversion table of a fallback language (lines 2163-2166)
FallbackConvDict(fallback_code, langcode) ==
    IF fallback_code \in DOMAIN convdicts THEN fallback_code ELSE langcode

\* The calls of build_candidates_for_lang that one round of 'for langcode in
\* lang_codes' can make, in their order: the call for the language itself
\* (line 2156, main = ""), then one call for each of its fallbacks (line 2168)
CallsFor(langcode) ==
    <<[lang |-> langcode, conv_dict_name |-> langcode, main |-> ""]>>
    \o (IF langcode \in DOMAIN main_to_fallbacks
        THEN [k \in 1..Len(main_to_fallbacks[langcode]) |->
                 [lang |-> main_to_fallbacks[langcode][k],
                  conv_dict_name |->
                      FallbackConvDict(main_to_fallbacks[langcode][k], langcode),
                  main |-> langcode]]
        ELSE <<>>)

\* the same for every language of lang_codes
RECURSIVE CallsForAll(_, _)
CallsForAll(lang_codes, n) ==
    IF n = 0 THEN <<>> ELSE CallsForAll(lang_codes, n - 1) \o CallsFor(lang_codes[n])

\* Whether the call c is made, given the calls made so far (tried): the call
\* for a language itself always is; the call for a fallback is made if neither
\* the language itself ('elif', line 2159) nor an earlier fallback of it
\* ('break', line 2173) has yielded candidates
CallMade(tried, c) ==
    \/ c.main = ""
    \/ \E own \in {i \in 1..Len(tried) :
                       tried[i].main = ""
                       /\ \A j \in (i + 1)..Len(tried) : tried[j].main # ""} :
          \A j \in own..Len(tried) : ~tried[j].got

\* one call of build_candidates_for_lang with what lines 2156-2172 do with
\* its result, on the state s of build_candidates: the cache, the candidates
\* dict, the active fallbacks and the calls made
LangCall(s, entry, c, strip_opt) ==
    Then(build_candidates_for_lang(s.cache, entry.raw[c.lang], c.lang, c.conv_dict_name,
                                   entry.class, strip_opt),
         LAMBDA b :
             [cache |-> b.cache,
              candidates |-> IF b.cands # <<>>
                             THEN SetKey(s.candidates, c.lang, b.returned)
                             ELSE s.candidates,
              active |-> IF b.cands # <<>> /\ c.main # ""
                         THEN s.active \cup {c.lang} ELSE s.active,
              tried |-> Append(s.tried, [lang |-> c.lang,
                                         conv_dict_name |-> c.conv_dict_name,
                                         main |-> c.main, got |-> b.cands # <<>>])])

\* the loop of lines 2155-2173 over the first n of the calls
RECURSIVE LangRounds(_, _, _, _, _)
LangRounds(s, entry, lang_calls, n, strip_opt) ==
    IF n = 0 THEN s
    ELSE Then(LangRounds(s, entry, lang_calls, n - 1, strip_opt),
              LAMBDA t : IF CallMade(t.tried, lang_calls[n])
                         THEN LangCall(t, entry, lang_calls[n], strip_opt)
                         ELSE t)

\* add_specified_word(candidates, word, source): the dict afterwards, or the
\* exit of the program
add_specified_word(cmap, word, norm_words, allow_duplicates) ==
    IF validate(word) # "None" THEN [exit |-> TRUE, candidates |-> cmap]
    ELSE IF normalize_word(export_word(word)) \in norm_words
            /\ ~allow_duplicates
    THEN [exit |-> TRUE, candidates |-> cmap]
    ELSE [exit |-> FALSE,
          candidates |-> SetKey(cmap, "", <<NewCandidate(word, 0, "", word)>>)]

\* self._active_fallbacks left as it is at the start of build_candidates
KeptFallbacks(active) == active

\* self._active_fallbacks.clear() (line 2146)
ClearedFallbacks(active) == {}

\* build_candidates(entry, constraints) with the options args (consider: the
\* codes of --consider, word: the word of --word, <<>> if not given; added:
\* constraints.added): the cache and the active fallbacks afterwards, the
\* dict returned, the languages tried, and whether the program has exited
build_candidates(cache, active, entry, added, args, norm_words) ==
    Then(LangRounds([cache |-> cache, candidates |-> <<>>,
                     active |-> ClearedFallbacks(active), tried |-> <<>>],
                    entry,
                    CallsForAll(sourcelang_list \o args.consider,
                                Len(sourcelang_list \o args.consider)),
                    Len(CallsForAll(sourcelang_list \o args.consider,
                                    Len(sourcelang_list \o args.consider))),
                    args.schwastrip),
         LAMBDA s :
             Then(Then(IF added # <<>> THEN added ELSE args.word,
                       LAMBDA word :
                           IF word # <<>>
                           THEN add_specified_word(s.candidates, word, norm_words,
                                                   args.allowduplicates)
                           ELSE [exit |-> FALSE, candidates |-> s.candidates]),
                  LAMBDA a : [cache |-> s.cache, active |-> s.active, tried |-> s.tried,
                              candidates |-> a.candidates, exit |-> a.exit]))

\* fallbacks: up to MaxBuildCalls calls of build_candidates on entries whose
\* fields hold a valid word, a word with a digit (no usable candidate), or
\* nothing; 'eo' is a language of --consider
MaxBuildCalls == 2
KADA == <<"k", "a", "d", "a">>
KAD == <<"k", "a", "d">>
KA5 == <<"k", "a", "5">>
FallbackEntries ==
    {[class |-> "noun",
      raw |-> [l \in {"hi", "ur", "ko", "eo"} |->
                  CASE l = "hi" -> hi [] l = "ur" -> ur [] l = "ko" -> ko
                    [] OTHER -> <<KAD>>]] :
        hi \in {<<>>, <<KADA>>, <<KA5>>}, ur \in {<<>>, <<KAD>>}, ko \in {<<>>, <<KADA>>}}
\* the options and constraints of a call: none, a language of --consider, an
\* Add: constraint (which goes before the --word option), or an invalid
\* word of --word
FallbackArgs ==
    {[consider |-> c, word |-> w, schwastrip |-> FALSE, allowduplicates |-> FALSE] :
        c \in {<<>>, <<"eo">>}, w \in {<<>>, <<"k", "5">>}}
FallbackOptions ==
    {o \in [args : FallbackArgs, added : {<<>>, KA}] :
        /\ o.args.consider # <<>> => (o.args.word = <<>> /\ o.added = <<>>)
        /\ o.added # <<>> => o.args.word # <<>>}

InitFallback ==
    /\ pc = "fallback"
    /\ active_fallbacks = {}
    /\ fb_calls = <<>>
    /\ NoRepair
    /\ NoDistance
    /\ NoScoring
    /\ NoBuild
    /\ NoSelect
    /\ NoLog
    /\ NoConcepts

\* candidates = self.build_candidates(entry, constraints), as process_entry
\* and the other callers run it, for one entry after the other; sys.exit ends
\* the run
BuildCandidates ==
    /\ pc = "fallback"
    /\ Len(fb_calls) < MaxBuildCalls
    /\ \E entry \in FallbackEntries, o \in FallbackOptions :
       \E r \in {build_candidates(candi_cache, active_fallbacks, entry, o.added, o.args,
                                   {})} :
          /\ candi_cache' = r.cache
          /\ active_fallbacks' = r.active
          /\ fb_calls' = Append(fb_calls,
                                [entry |-> entry, args |-> o.args, added |-> o.added,
                                 before |-> active_fallbacks,
                                 candidates |-> r.candidates, tried |-> r.tried,
                                 exit |-> r.exit])
          /\ pc' = IF r.exit THEN "exit" ELSE pc
    /\ UNCHANGED <<schwastrip, mk_word, mk_calls, builds, repairVars, distVars, scoreVars,
                   selectVars, logVars, concepts>>

NextFallback == BuildCandidates

SpecFallback == InitFallback /\ [][NextFallback]_vars

(***************************************************************************)
(* present_cands_for_selection over the lines of an auxfile: the eligible  *)
(* list, the choice, and the words remembered as existing                  *)
(***************************************************************************)
\* remember_word with the word added to existing_norm_words as it is written
remember_word_as_written(words_dict, norm_words, word) ==
    [existing_words_dict |-> words_dict \cup {Lower(word)},
     existing_norm_words |-> norm_words \cup {word}]

\* remember_word: the lower-cased word becomes a key of existing_words_dict,
\* the normalized word a member of existing_norm_words
remember_word(words_dict, norm_words, word) ==
    [existing_words_dict |-> words_dict \cup {Lower(word)},
     existing_norm_words |-> norm_words \cup {normalize_word(word)}]

\* re.split(r'\s+|-', word) for a word without runs of separators
CompoundParts(word) == Split([i \in 1..Len(word) |-> IF word[i] = "-" THEN " " ELSE word[i]])

\* validate_compound: TRUE if it dies (a part is missing, or the compound or a
\* minimal pair of it exists already)
validate_compound(word0, gloss_eq, words_dict, norm_words, allow_duplicates) ==
    LET word == IF word0 # <<>> /\ word0[Len(word0)] \in {"?", "!"}
                THEN SubSeq(word0, 1, Len(word0) - 1) ELSE word0
        parts == CompoundParts(word)
        variants(idx) ==
            {Lower(parts[idx])}
            \cup (IF idx # Len(parts) THEN {Lower(parts[idx]) \o <<"-">>} ELSE {})
            \cup (IF idx # 1 THEN {<<"-">> \o Lower(parts[idx])} ELSE {})
        missing_parts ==
            {idx \in 1..Len(parts) :
                parts[idx] # <<".", ".", ".">> /\ variants(idx) \cap words_dict = {}}
    IN \/ missing_parts # {}
       \/ normalize_word(word) \in norm_words /\ ~(allow_duplicates \/ gloss_eq)

\* Candidate.has_suitable_related_natlang_cands ('glosa' is not a language of
\* the model)
has_suitable_related_natlang_cands(c) ==
    \E l \in LangCodes : c.related_cands[l] # <<>> /\ l \notin auxlangs

\* Candidate.find_langs_with_identical_candidate
find_langs_with_identical_candidate(cmap, c) ==
    {l \in LangCodes :
        \E n \in 1..Len(c.related_cands[l]) :
            export_word(Cand(cmap, c.related_cands[l][n]).word) = export_word(c.word)}

\* the position in a non-empty sorted_eligible_list of the candidate that
\* lines 2060-2095 choose; added is constraints.added (<<>>: not set)
ChosenPos(cmap, el, added) ==
    LET min_ts == <<1, 2>>
        added_pos == {k \in 1..Len(el) : el[k].c.lang = ""}
        aux_pos ==
            {k \in 1..Len(el) :
                /\ ~FracLess(total_score(el[k].c), min_ts)
                /\ \/ el[k].c.lang \in auxlangs /\ has_suitable_related_natlang_cands(el[k].c)
                   \/ Cardinality(find_langs_with_identical_candidate(cmap, el[k].c)) >= 3}
    IN IF added # <<>>
       THEN (IF added_pos # {} THEN MinOf(added_pos) ELSE 1)
       ELSE IF auxlangs # {} /\ aux_pos # {} THEN MinOf(aux_pos) ELSE 1

\* the branches of present_cands_for_selection after print_cands (lines
\* 2008-2115) for a line of an auxfile (neither --select nor --word) without
\* a merge constraint: what is chosen (<<>>: nothing), from where, and
\* whether the run dies
Selection(cmap, el, constraints, words_dict, norm_words, allow_duplicates) ==
    IF constraints.compound # <<>>
    THEN IF validate_compound(constraints.compound, constraints.gloss_eq, words_dict,
                              norm_words, allow_duplicates)
         THEN [exit |-> TRUE, choice |-> <<>>, kind |-> "compound"]
         ELSE [exit |-> FALSE, choice |-> <<constraints.compound>>, kind |-> "compound"]
    ELSE IF el # <<>>
    THEN [exit |-> FALSE,
          choice |-> <<export_word(el[ChosenPos(cmap, el, constraints.added)].c.word)>>,
          kind |-> "list"]
    ELSE [exit |-> FALSE, choice |-> <<>>, kind |-> "none"]

\* the lines of one run: up to MaxLines lines, each with at most one candidate
\* per natural language and one of the auxlang; 'kaza' is a minimal pair of
\* 'kasa'
MaxLines == 2
KAZA == <<"k", "a", "z", "a">>
SelectPool ==
    [en |-> {<<>>, <<[word |-> KASA, penalty |-> 0]>>, <<[word |-> KAZA, penalty |-> 0]>>},
     es |-> {<<>>, <<[word |-> KASI, penalty |-> 0]>>},
     eo |-> {<<[word |-> KASI, penalty |-> 0]>>, <<[word |-> KAZA, penalty |-> 0]>>}]
SelectLists ==
    {lists \in [1..Len(SOURCE_LANGS) -> UNION {SelectPool[l] : l \in LangCodes}] :
        \A i \in 1..Len(SOURCE_LANGS) : lists[i] \in SelectPool[SOURCE_LANGS[i]]}
KASI_KASI == KASI \o <<"-">> \o KASI
\* the constraints of a line: none, 'Add:', or 'Compound:' (with an entry
\* whose gloss starts with '=' or not)
LineConstraints ==
    {[added |-> <<>>, compound |-> <<>>, gloss_eq |-> FALSE],
     [added |-> KASA, compound |-> <<>>, gloss_eq |-> FALSE],
     [added |-> <<>>, compound |-> KASI_KASI, gloss_eq |-> FALSE],
     [added |-> <<>>, compound |-> KASI_KASI, gloss_eq |-> TRUE]}
\* the words of the dictionary the run starts with
DictWords == {{}, {export_word(KASI)}}

InitSelect ==
    /\ pc = "line"
    /\ existing_words_dict \in DictWords
    /\ existing_norm_words = {normalize_word(w) : w \in existing_words_dict}
    /\ allowduplicates \in BOOLEAN
    /\ line = <<>>
    /\ selections = <<>>
    /\ NoScoring
    /\ NoRepair
    /\ NoDistance
    /\ NoBuild
    /\ NoFallback
    /\ NoLog
    /\ NoConcepts

\* process_aux_line up to the call of select_candidate: the constraints of the
\* line and candidates = self.build_candidates(entry, constraints), which
\* dies in add_specified_word if the added word exists already
StartLine ==
    /\ pc = "line"
    /\ Len(selections) < MaxLines
    /\ \E lists \in SelectLists, constraints \in LineConstraints :
          /\ line' = <<constraints>>
          /\ \E r \in {IF constraints.added # <<>>
                       THEN add_specified_word(<<>>, constraints.added,
                                               existing_norm_words, allowduplicates)
                       ELSE [exit |-> FALSE, candidates |-> <<>>]} :
                IF r.exit
                THEN pc' = "exit" /\ UNCHANGED candidates
                ELSE /\ pc' = "penalties"
                     /\ candidates' = CandidatesMap(lists, constraints.added)
    /\ word_arg' = FALSE
    /\ lang_i' = 0
    /\ cand_list' = <<>>
    /\ UNCHANGED <<pargs, ranked, eligible, starred, existing_words_dict,
                   existing_norm_words, allowduplicates, selections, repairVars, distVars,
                   buildVars, fallbackVars, logVars, concepts>>

\* self.present_cands_for_selection(cand_list, candidates, entry, constraints)
PresentCandsForSelection ==
    /\ pc = "print"
    /\ line # <<>>
    /\ \E min_length \in MinLengths, sorted \in {Sorted(candidates, cand_list)} :
          /\ pargs' = [min_length |-> min_length,
                       constraints |-> IF line[1].added = <<>> /\ line[1].compound = <<>>
                                       THEN <<>> ELSE <<NoConstraints>>,
                       existing_norm_words |-> existing_norm_words,
                       allowduplicates |-> allowduplicates]
          /\ ranked' = RefsOf(sorted)
          /\ starred' = Starred(sorted)
          /\ \E el \in {Numbered(sorted, pargs')} :
             \E r \in {Selection(candidates, el, line[1], existing_words_dict,
                                 existing_norm_words, allowduplicates)} :
                /\ eligible' = RefsOf(el)
                /\ selections' =
                      Append(selections,
                             [words_dict |-> existing_words_dict,
                              norm_words |-> existing_norm_words,
                              numbered |-> {el[k].norm_word : k \in 1..Len(el)},
                              skipped |-> {sorted[k].norm_word : k \in
                                              {i \in 1..Len(sorted) :
                                                  SkipReason(sorted[i], pargs')
                                                      = "word exists already"}},
                              choice |-> r.choice, kind |-> r.kind, exit |-> r.exit])
                /\ pc' = IF r.exit THEN "exit" ELSE "line"
                /\ \E m \in {IF r.choice # <<>>
                             THEN remember_word(existing_words_dict, existing_norm_words,
                                                r.choice[1])
                             ELSE [existing_words_dict |-> existing_words_dict,
                                   existing_norm_words |-> existing_norm_words]} :
                      /\ existing_words_dict' = m.existing_words_dict
                      /\ existing_norm_words' = m.existing_norm_words
    /\ UNCHANGED <<candidates, word_arg, lang_i, cand_list, allowduplicates, line,
                   repairVars, distVars, buildVars, fallbackVars, logVars, concepts>>

NextSelect ==
    StartLine \/ CalcSimPenalties \/ StoreNormalizedSimPenalties \/ PresentCandsForSelection

SpecSelect == InitSelect /\ [][NextSelect]_vars

(***************************************************************************)
(* util.RecordingLogger and the selection log                              *)
(***************************************************************************)
NEWLINE == "\n"
WARNING_PREFIX == <<"W", "A", "R", "N", "I", "N", "G", ":", " ">>

\* the text 'for msg in self._messages: outfile.write(msg + '\n')' writes
WrittenMessages(msgs) ==
    LET f[k \in 0..Len(msgs)] ==
            IF k = 0 THEN <<>> ELSE f[k - 1] \o msgs[k] \o <<NEWLINE>>
    IN f[Len(msgs)]

\* self._messages left as it is after the file is written
KeptMessages(msgs) == msgs

\* self._messages after the file is written
ClearedMessages(msgs) == <<>>

\* RecordingLogger.info on the logger log = [messages, stdout]
info(log, msg) ==
    [messages |-> Append(log.messages, msg), stdout |-> Append(log.stdout, msg)]

\* RecordingLogger.warn
warn(log, msg) == info(log, WARNING_PREFIX \o msg)

\* RecordingLogger.append_all_messages on the logger's messages, the file and
\* its backup copy
append_all_messages(msgs, file, bak) ==
    IF msgs = <<>> THEN [messages |-> msgs, logfile |-> file, backup |-> bak]
    ELSE [messages |-> ClearedMessages(msgs),
          logfile |-> [exists |-> TRUE,
                       text |-> file.text
                                \o (IF file.exists THEN <<NEWLINE, NEWLINE>> ELSE <<>>)
                                \o WrittenMessages(msgs)],
          \* copy_to_backup
          backup |-> IF file.exists THEN <<file.text>> ELSE bak]

\* the calls of one run: up to MaxLogCalls calls, the messages out of
\* LogMessages, the selection log absent, empty, or with a line in it
MaxLogCalls == 5
LogMessages == {<<"a">>, <<"b">>}
LogFiles ==
    {NoFile, [exists |-> TRUE, text |-> <<>>],
     [exists |-> TRUE, text |-> <<"o", NEWLINE>>]}

InitLog ==
    /\ pc = "log"
    /\ messages = <<>>
    /\ stdout = <<>>
    /\ logfile \in LogFiles
    /\ backup = <<>>
    /\ log_start = logfile
    /\ log_calls = <<>>
    /\ NoRepair
    /\ NoDistance
    /\ NoScoring
    /\ NoBuild
    /\ NoFallback
    /\ NoSelect
    /\ NoConcepts

otherThanLog ==
    <<pc, repairVars, distVars, scoreVars, buildVars, fallbackVars, selectVars, concepts>>

\* LOG.info(msg)
Info ==
    /\ pc = "log"
    /\ Len(log_calls) < MaxLogCalls
    /\ \E msg \in LogMessages :
          /\ \E r \in {info([messages |-> messages, stdout |-> stdout], msg)} :
                messages' = r.messages /\ stdout' = r.stdout
          /\ log_calls' = Append(log_calls, [op |-> "info", msg |-> msg])
    /\ UNCHANGED <<logfile, backup, log_start, otherThanLog>>

\* LOG.warn(msg)
Warn ==
    /\ pc = "log"
    /\ Len(log_calls) < MaxLogCalls
    /\ \E msg \in LogMessages :
          /\ \E r \in {warn([messages |-> messages, stdout |-> stdout], msg)} :
                messages' = r.messages /\ stdout' = r.stdout
          /\ log_calls' = Append(log_calls, [op |-> "warn", msg |-> msg])
    /\ UNCHANGED <<logfile, backup, log_start, otherThanLog>>

\* LOG.append_all_messages(SELECTION_LOG)
AppendAllMessages ==
    /\ pc = "log"
    /\ Len(log_calls) < MaxLogCalls
    /\ \E r \in {append_all_messages(messages, logfile, backup)} :
          messages' = r.messages /\ logfile' = r.logfile /\ backup' = r.backup
    /\ log_calls' = Append(log_calls, [op |-> "append_all_messages", msg |-> <<>>])
    /\ UNCHANGED <<stdout, log_start, otherThanLog>>

NextLog == Info \/ Warn \/ AppendAllMessages

SpecLog == InitLog /\ [][NextLog]_vars

(***************************************************************************)
(* find_concepts: the needed count of every kind of word                   *)
(***************************************************************************)
\* Kind, in the order of KIND_DESC
KINDS == <<"NOUN", "ADJ", "VERB">>
Kind == {KINDS[i] : i \in 1..Len(KINDS)}

\* round(num / den): the nearest integer, a tie going to the even one
round(num, den) ==
    LET q == num \div den
        r == num % den
    IN IF 2 * r < den THEN q
       ELSE IF 2 * r > den THEN q + 1
       ELSE IF q % 2 = 0 THEN q ELSE q + 1

\* the sum of the values of a dict over the keys ks
SumValues(d, ks) ==
    LET f[k \in 0..Len(ks)] == IF k = 0 THEN 0 ELSE f[k - 1] + d[ks[k]]
    IN f[Len(ks)]

\* the ideal target distribution (lines 2611-2615)
TargetCounts(target_sum) ==
    LET noun == round(target_sum * 4, 10)
        adj == round(target_sum * 2, 10)
    IN [kind \in Kind |->
           CASE kind = "NOUN" -> noun
             [] kind = "ADJ" -> adj
             [] OTHER -> target_sum - noun - adj]

\* the loop over cycle(kind_list) reducing whatever kind comes next
CanReduceAny(target_counts, counter, kind) == TRUE

\* 'if target_counts[kind] > counter[kind]' of the loop over cycle(kind_list)
CanReduce(target_counts, counter, kind) == target_counts[kind] > counter[kind]

\* the existing distributions and the concept counts of the model
MaxExisting == 4
MaxConcepts == 4

InitConcepts ==
    /\ pc = "find_concepts"
    /\ concepts \in {[counter |-> counter, concept_count |-> concept_count] :
                         counter \in [Kind -> 0..MaxExisting],
                         concept_count \in 1..MaxConcepts}
    /\ NoRepair
    /\ NoDistance
    /\ NoScoring
    /\ NoBuild
    /\ NoFallback
    /\ NoSelect
    /\ NoLog

otherThanConcepts ==
    <<repairVars, distVars, scoreVars, buildVars, fallbackVars, selectVars, logVars>>

\* find_concepts up to the loop over cycle(kind_list) (lines 2607-2633): the
\* target counts, the overshoot and the kinds that can give it back
FindConcepts ==
    /\ pc = "find_concepts"
    /\ LET counter == concepts.counter
           ideal == TargetCounts(SumValues(counter, KINDS) + concepts.concept_count)
           overshot_kinds == {kind \in Kind : counter[kind] - ideal[kind] > 0}
           overshoot ==
               SumValues([kind \in Kind |->
                             IF kind \in overshot_kinds
                             THEN counter[kind] - ideal[kind] ELSE 0], KINDS)
           kind_list ==
               SelectSeq(<<"NOUN", "ADJ", "NOUN", "VERB">>,
                         LAMBDA kind : kind \notin overshot_kinds)
       IN /\ concepts' =
                [counter |-> counter, concept_count |-> concepts.concept_count,
                 target_counts |-> [kind \in Kind |->
                                       IF kind \in overshot_kinds
                                       THEN counter[kind] ELSE ideal[kind]],
                 overshoot |-> overshoot, overshot_kinds |-> overshot_kinds,
                 kind_list |-> IF overshoot # 0 THEN kind_list ELSE <<>>,
                 remaining_overshoot |-> overshoot, pos |-> 1, iterations |-> 0]
          \* cycle() of an empty list yields nothing
          /\ pc' = IF overshoot # 0 /\ kind_list # <<>> THEN "cycle" ELSE "needed"
    /\ UNCHANGED otherThanConcepts

\* one iteration of 'for kind in cycle(kind_list)' (lines 2635-2640)
CycleStep ==
    /\ pc = "cycle"
    /\ LET kind == concepts.kind_list[concepts.pos]
           next == (concepts.pos % Len(concepts.kind_list)) + 1
       IN IF CanReduce(concepts.target_counts, concepts.counter, kind)
          THEN /\ concepts' =
                     [concepts EXCEPT !.target_counts[kind] = @ - 1,
                                      !.remaining_overshoot = @ - 1,
                                      !.pos = next, !.iterations = @ + 1]
               /\ pc' = IF concepts.remaining_overshoot - 1 = 0 THEN "needed" ELSE "cycle"
          ELSE /\ concepts' = [concepts EXCEPT !.pos = next, !.iterations = @ + 1]
               /\ pc' = "cycle"
    /\ UNCHANGED otherThanConcepts

\* needed_kinds and the sanity checks (lines 2642-2655)
SanityChecks ==
    /\ pc = "needed"
    /\ LET needed == [kind \in Kind |->
                         concepts.target_counts[kind] - concepts.counter[kind]]
           kept == {kind \in Kind : needed[kind] # 0}
           needed_sum == SumValues(needed, KINDS)
       IN /\ concepts' =
                [counter |-> concepts.counter, concept_count |-> concepts.concept_count,
                 overshoot |-> concepts.overshoot, iterations |-> concepts.iterations,
                 kind_list |-> concepts.kind_list,
                 needed_kinds |-> [kind \in kept |-> needed[kind]]]
          /\ pc' = IF needed_sum # concepts.concept_count THEN "RuntimeError: total"
                   ELSE IF \E kind \in kept : needed[kind] <= 0
                   THEN "RuntimeError: non-positive"
                   ELSE "found"
    /\ UNCHANGED otherThanConcepts

NextConcepts == FindConcepts \/ CycleStep \/ SanityChecks

\* the statements of find_concepts run one after the other without waiting
SpecConcepts == InitConcepts /\ [][NextConcepts]_vars /\ WF_vars(NextConcepts)

(***************************************************************************)
(* Properties                                                              *)
(***************************************************************************)
\* C1: repair is idempotent: a second call of insert_filler_vowels leaves the
\* word and the penalty of the Candidate as the first call left them.
RepairIdempotent ==
    calls >= 2 => (cand.word = first.word /\ cand.penalty = first.penalty)

\* a second call was made on a Candidate whose first repair changed the word
\* and added a penalty
RepairedTwice ==
    calls = 2 /\ first.word # orig /\ first.penalty > 0 /\ cand = first

\* C2: validator soundness: once insert_filler_vowels has completed on a word
\* made of internal-alphabet symbols, spaces and punctuation, validate()
\* returns None.
InternalInput ==
    \A i \in 1..Len(orig) :
        orig[i] \in ALL_CONSONANTS \cup INTERNAL_VOWELS \cup PUNCTUATION \cup {" "}

ValidatorSound ==
    (calls >= 1 /\ InternalInput /\ valErr # "unset") => valErr = "None"

\* C3: distance symmetry: calc_distance(a, b) and calc_distance(b, a) return
\* the same (edit distance, related) pair, or raise the same exception.
DistanceSymmetric == Len(dres) >= 2 => dres[1] = dres[2]

\* both orders were computed for two different words that had to be swapped
\* and stripped, and that are related
SwappedPairCompared ==
    /\ Len(dres) >= 2
    /\ StrLess(dargs[2], dargs[1])
    /\ EndsWith(dargs[1], <<SCHWA>>) /\ EndsWith(dargs[2], <<SCHWA>>)
    /\ dres[1].raised = "" /\ dres[1].edist > 0 /\ dres[1].related

\* C4: self-distance: for every word a of at least 2 letters,
\* calc_distance(a, a) returns (0, True).
SelfDistanceZero ==
    (Len(dres) >= 1 /\ dargs[1] = dargs[2] /\ Len(dargs[1]) >= 2)
        => dres[1] = Returned(0, TRUE)

\* C6: a shared edge filler never influences the comparison: for non-empty a
\* and b, calc_distance(a + filler, b + filler) and
\* calc_distance(filler + a, filler + b) both equal calc_distance(a, b).
SharedFillerIgnored ==
    (dargs[1] # <<>> /\ dargs[2] # <<>>)
        => /\ Len(dres) >= 3 => dres[3] = dres[1]
           /\ Len(dres) >= 4 => dres[4] = dres[1]

\* all four calls were made on two different non-empty words that are not
\* related and would be if the shared final filler counted
FillerPairCompared ==
    /\ Len(dres) = 4
    /\ dargs[1] # <<>> /\ dargs[2] # <<>> /\ dargs[1] # dargs[2]
    /\ dres[1].raised = "" /\ ~dres[1].related
    /\ \E a \in {dargs[1] \o <<SCHWA>>}, b \in {dargs[2] \o <<SCHWA>>} :
          IF StrLess(b, a) THEN Compare(b, a).related ELSE Compare(a, b).related

\* the two words with every shared leading, then every shared trailing filler
\* removed
RECURSIVE StripSharedFillers(_, _)
StripSharedFillers(a, b) ==
    IF StartsWith(a, <<SCHWA>>) /\ StartsWith(b, <<SCHWA>>)
    THEN StripSharedFillers(Tail(a), Tail(b))
    ELSE IF EndsWith(a, <<SCHWA>>) /\ EndsWith(b, <<SCHWA>>)
    THEN StripSharedFillers(DropLast(a), DropLast(b))
    ELSE <<a, b>>

\* the relatedness rule on two stripped words
RelatedRule(a, b) ==
    LET longest == IF Len(a) > Len(b) THEN Len(a) ELSE Len(b)
        shorter == IF Len(a) <= Len(b) THEN a ELSE b
        longer == IF Len(a) <= Len(b) THEN b ELSE a
        ca == {IF a[i] = "N" THEN "n" ELSE a[i] : i \in 1..Len(a)} \cap ALL_CONSONANTS
        cb == {IF b[i] = "N" THEN "n" ELSE b[i] : i \in 1..Len(b)} \cap ALL_CONSONANTS
    IN /\ \/ 2 * editdistance(a, b) <= longest
          \/ Len(shorter) >= 2 /\ (StartsWith(longer, shorter) \/ EndsWith(longer, shorter))
       /\ (ca # {} /\ cb # {}) => ca \cap cb # {}

\* C7: relatedness rule: after edge-filler stripping, related is True exactly
\* when (edit distance / length of the longer word <= 0.5, or the shorter word
\* has at least 2 letters and is a prefix or suffix of the longer one) and,
\* if both words have a consonant, they share one ('N' counting as 'n').
RelatedExactly ==
    (Len(dres) >= 1 /\ dres[1].raised = "")
        => \E p \in {StripSharedFillers(dargs[1], dargs[2])} :
              dres[1].related = RelatedRule(p[1], p[2])

\* a pair related only by the prefix/suffix rule, and a pair close enough by
\* distance that is unrelated for want of a shared consonant
RelatedByAffix ==
    /\ Len(dres) >= 1 /\ dres[1].raised = "" /\ dres[1].related
    /\ 2 * dres[1].edist > Len(dargs[2])
    /\ ConsonantsOf(dargs[1]) # {}

\* every candidate of the map, and the candidates of a list, by reference
AllRefs ==
    UNION {{<<candidates[i].lang, j>> : j \in 1..Len(candidates[i].cands)} :
              i \in 1..Len(candidates)}
Listed == {cand_list[k] : k \in 1..Len(cand_list)}
HasPseudo == \E i \in 1..Len(candidates) : candidates[i].lang = ""
One == <<1, 1>>
Zero == <<0, 1>>

\* r has the lowest raw_psim of the candidates R
LowestOf(r, R) ==
    \A q \in R : Cand(candidates, r).raw_psim <= Cand(candidates, q).raw_psim
HighestOf(r, R) ==
    \A q \in R : Cand(candidates, r).raw_psim >= Cand(candidates, q).raw_psim

\* C5 as stated: once every language has its similarity penalties and
\* store_normalized_sim_penalties has run, a candidate with the lowest raw_psim
\* of the whole batch (the candidates map) has simscore 1.0.
LowestOfBatchScoresOne ==
    pc \in {"print", "done"}
        => \A r \in AllRefs :
              LowestOf(r, AllRefs) => FracEq(Cand(candidates, r).simscore, One)

\* C5, amended: a candidate with the lowest raw_psim of the list that
\* store_normalized_sim_penalties returns has simscore 1.0.
LowestOfListScoresOne ==
    pc \in {"print", "done"}
        => \A r \in Listed :
              LowestOf(r, Listed) => FracEq(Cand(candidates, r).simscore, One)

\* scores were stored for a list with different raw penalties while the hidden
\* word of the --word option has the lowest raw penalty of all
HiddenWordIsLowest ==
    /\ pc = "print"
    /\ word_arg
    /\ \E r \in AllRefs \ Listed : LowestOf(r, AllRefs)
    /\ \E r, q \in Listed :
          /\ LowestOf(r, Listed)
          /\ Cand(candidates, r).raw_psim < Cand(candidates, q).raw_psim
          /\ FracEq(Cand(candidates, r).simscore, One)

\* the minimum edit distance between c and the candidates of an entry
MinEditDistance(c, entry) ==
    MinOf({calc_distance(c.word, entry.cands[m].word).edist : m \in 1..Len(entry.cands)})

\* the sum of Term(i) over the set I of numbers
SumOver(I, Term(_)) ==
    LET f[k \in 0..Len(candidates)] ==
            IF k = 0 THEN 0 ELSE f[k - 1] + (IF k \in I THEN Term(k) ELSE 0)
    IN f[Len(candidates)]

\* every candidate of entry e that calc_distance finds related to c is in
\* c.related_cands under the language of e
RelatedRecorded(c, e) ==
    \A m \in 1..Len(e.cands) :
        calc_distance(c.word, e.cands[m].word).related
            => /\ e.lang \in DOMAIN c.related_cands
               /\ \E n \in 1..Len(c.related_cands[e.lang]) :
                     c.related_cands[e.lang][n] = <<e.lang, m>>

\* C8 as stated: after calc_sim_penalties(L, candidates), the raw_psim of
\* every candidate of L is the sum, over every other language key of the map
\* with at least one candidate, of the minimum edit distance to its
\* candidates, and every related candidate of another key is recorded in
\* related_cands under that key.
RawPenaltyOverAllKeys ==
    pc = "penalties"
        => \A i \in 1..lang_i : \A j \in 1..Len(candidates[i].cands) :
              \E c \in {candidates[i].cands[j]} :
              \E others \in {{e \in 1..Len(candidates) :
                                e # i /\ candidates[e].cands # <<>>}} :
                 /\ c.raw_psim =
                       SumOver(others, LAMBDA e : MinEditDistance(c, candidates[e]))
                 /\ \A e \in others : RelatedRecorded(c, candidates[e])

\* C8, amended: the sum and the recording range over every other key with at
\* least one candidate except the empty key "" (the word of an Add:
\* constraint or of --word), and each term is the smaller of 1000 and the
\* minimum edit distance.
RawPenaltyOverLanguages ==
    pc = "penalties"
        => \A i \in 1..lang_i : \A j \in 1..Len(candidates[i].cands) :
              \E c \in {candidates[i].cands[j]} :
              \E others \in {{e \in 1..Len(candidates) :
                                /\ e # i
                                /\ candidates[e].lang # ""
                                /\ candidates[e].cands # <<>>}} :
                 /\ c.raw_psim =
                       SumOver(others,
                               LAMBDA e : Min2(MIN_DIST_START,
                                               MinEditDistance(c, candidates[e])))
                 /\ \A e \in others : RelatedRecorded(c, candidates[e])

\* every language has its penalties; the map has the key "" and a language
\* with two candidates of which the first is the nearer one to a candidate of
\* another language, related to the first and not to the second
PenaltiesWithEmptyKey ==
    /\ pc = "penalties"
    /\ lang_i = Len(candidates)
    /\ HasPseudo
    /\ \E i, e \in 1..Len(candidates) :
          /\ i # e /\ candidates[i].lang # "" /\ candidates[e].lang # ""
          /\ Len(candidates[e].cands) = 2
          /\ \E c \in {candidates[i].cands[1]} :
                /\ c.related_cands[candidates[e].lang] = << <<candidates[e].lang, 1>> >>
                /\ calc_distance(c.word, candidates[e].cands[1].word).edist
                      < calc_distance(c.word, candidates[e].cands[2].word).edist
                /\ c.raw_psim > 0

\* C9: every candidate of the list store_normalized_sim_penalties returns has
\* 0 <= simscore <= 1; with different raw penalties the highest one gets 0;
\* with equal raw penalties (a single candidate included) every one gets 1.0.
SimscoreNormalized ==
    pc \in {"print", "done"}
        => \A r \in Listed :
              \E sim \in {Cand(candidates, r).simscore} :
                 /\ ~FracLess(sim, Zero) /\ ~FracLess(One, sim)
                 /\ (HighestOf(r, Listed) /\ ~LowestOf(r, Listed)) => FracEq(sim, Zero)
                 /\ (\A q \in Listed : LowestOf(q, Listed)) => FracEq(sim, One)

\* a list with three different raw penalties: scores 0, 1 and one in between
ThreeDifferentScores ==
    /\ pc = "print"
    /\ \E r, q, t \in Listed :
          /\ FracEq(Cand(candidates, r).simscore, Zero)
          /\ FracEq(Cand(candidates, q).simscore, One)
          /\ FracLess(Zero, Cand(candidates, t).simscore)
          /\ FracLess(Cand(candidates, t).simscore, One)

\* the key of the ranking, from the candidate itself
RankKey(ref) ==
    Then(Cand(candidates, ref),
         LAMBDA c : [count |-> count_related_natlang_cands(c), total |-> total_score(c),
                     word |-> export_word(c.word)])

\* candidate x is worse than candidate y under the key (more related natural
\* languages first, then the higher total score, then the exported word in
\* ascending order)
Worse(x, y) ==
    \/ x.count < y.count
    \/ /\ x.count = y.count
       /\ \/ FracLess(x.total, y.total)
          \/ FracEq(x.total, y.total) /\ StrLess(y.word, x.word)

\* the position of a candidate in the processing order
RankOf(ref) == CHOOSE k \in 1..Len(ranked) : ranked[k] = ref

Eligible == {eligible[k] : k \in 1..Len(eligible)}

\* the exported word of a candidate, and its normalized form
ExportedWord(r) == export_word(Cand(candidates, r).word)

\* none of the skip conditions holds for the candidate r
NotSkipped(r) ==
    \E c \in {Cand(candidates, r)} :
       /\ Len(c.word) >= pargs.min_length
       /\ c.penalty <= 1
       /\ \E w \in {export_word(c.word)} :
             /\ \/ pargs.allowduplicates
                \/ normalize_word(w) \notin pargs.existing_norm_words
             /\ \/ pargs.constraints = <<>>
                \/ fails(pargs.constraints[1], c, w) = ""

\* C11: print_cands returns exactly the candidates for which no skip condition
\* holds: the normalized exported word is no existing word (or duplicates are
\* allowed), the word has at least min_length sounds, the penalty is at most
\* 1, and the Constraints object (if any) reports no failure.
EligibleExactly ==
    pc = "done"
        => \E returned \in {Eligible} :
              /\ \A r \in Listed : r \in returned <=> NotSkipped(r)
              /\ returned \subseteq Listed
              /\ Cardinality(returned) = Len(eligible)

\* print_cands ran with a Constraints object on a list with a candidate of
\* penalty 1 that is returned and a candidate of penalty 2 that is skipped for
\* its distortion only
DistortedOnlySkipped ==
    /\ pc = "done"
    /\ pargs.constraints # <<>>
    /\ \E r \in Eligible : Cand(candidates, r).penalty = 1
    /\ \E r \in Listed \ Eligible :
          \E c \in {Cand(candidates, r)} :
             /\ c.penalty = 2
             /\ Len(c.word) >= pargs.min_length
             /\ normalize_word(ExportedWord(r)) \notin pargs.existing_norm_words
             /\ fails(pargs.constraints[1], c, ExportedWord(r)) = ""

\* the candidate c violates a constraint of the Constraints object k
Violates(k, c) ==
    \/ \E m \in k.max_syllables : syllables(c) > m
    \/ c.lang # "" /\ k.allowed_langs # {} /\ c.lang \notin k.allowed_langs
    \/ export_word(c.word) \in DOMAIN k.skip
    \/ k.chosen # <<>> /\ export_word(c.word) # k.chosen

\* C12: a candidate that has too many syllables, a language outside the
\* allowed ones, an exported word on the skip list or another word than the
\* chosen one gets a non-empty reason from Constraints.fails and is not in
\* the list print_cands returns.
ConstraintViolationsSkipped ==
    (pc = "done" /\ pargs.constraints # <<>>)
        => \A r \in Listed :
              \E c \in {Cand(candidates, r)} :
                 Violates(pargs.constraints[1], c)
                    => /\ fails(pargs.constraints[1], c, ExportedWord(r)) # ""
                       /\ r \notin Eligible

\* the candidates of the list with the highest total_score
Best ==
    {r \in Listed :
        \A q \in Listed : ~FracLess(total_score(Cand(candidates, r)),
                                    total_score(Cand(candidates, q)))}

\* C13 as stated: exactly one candidate is flagged as best, the one with the
\* highest total_score of all candidates, skipped ones included.
BestFlaggedOnce ==
    (pc = "done" /\ cand_list # <<>>)
        => Cardinality(starred) = 1 /\ starred \subseteq Best

\* C13, amended: every candidate whose total_score is the highest of the list,
\* skipped or not, is flagged, and no other; there is at least one for a
\* list that is not empty.
BestFlaggedAll ==
    pc = "done"
        => /\ starred = Best
           /\ cand_list # <<>> => starred # {}

\* two candidates tie at the highest total score and are both flagged, one of
\* them returned and one skipped, while another candidate is not flagged
TwoBestOneSkipped ==
    /\ pc = "done"
    /\ \E r \in starred \cap Eligible, q \in starred \ Eligible : r # q
    /\ Listed \ starred # {}

\* what the run of insert_filler_vowels on the pre-repair word did
RepairRun == RepairAll(orig, cand.lang, cand.eil)

\* C18 as stated: one run of insert_filler_vowels raises the penalty (0
\* before) by the number of sounds the loss rules deleted plus the number of
\* filler vowels in the final word.
PenaltyIsLossesAndFillers ==
    calls >= 1
        => \E r \in {RepairRun} :
              cand.penalty = r.lost + Count(cand.word, <<SCHWA>>)

\* C18, amended: the penalty is raised by one point for every sound deleted
\* with a penalty, one for every sound replaced with a penalty, and one for
\* every filler vowel of the final word, whether the repair inserted it or the
\* word had it before; fillers that are not in the final word cost nothing.
PenaltyIsLossesReplacementsAndFillers ==
    calls >= 1
        => \E r \in {RepairRun} :
              /\ cand.penalty = r.lost + r.other + Count(cand.word, <<SCHWA>>)
              /\ cand.word = r.word

\* a repair of a single sub-word that deleted a sound, and inserted a filler
\* between 'N' and 'g' that the clean-up removed again: the final word has one
\* filler and the penalty is 2
FillerInsertedAndRemoved ==
    /\ calls = 1
    /\ \A i \in 1..Len(orig) : orig[i] \notin {" ", SCHWA}
    /\ \E s \in {RepairPhaseFillers(
                    RepairPhaseSimplify([w |-> orig, lost |-> 0, other |-> 0],
                                        cand.lang, cand.eil),
                    cand.lang, cand.eil)} :
          /\ Count(s.w, <<"N", SCHWA, "g">>) = 1
          /\ s.lost = 1
    /\ Count(cand.word, <<"N", SCHWA, "g">>) = 0
    /\ Count(cand.word, <<SCHWA>>) = 1
    /\ cand.penalty = 2

\* the objects of the list a build_candidates_for_lang call returned
ReturnedKeys(b) == {b.cands[i] : i \in 1..Len(b.cands)}

LongestKeyAt(convdict, maxlen, w, i) ==
    LET lens == {n \in 1..Min2(maxlen, Len(w) - i + 1) :
                    SubSeq(w, i, i + n - 1) \in DOMAIN convdict}
    IN IF lens = {} THEN 0 ELSE CHOOSE n \in lens : \A m \in lens : m <= n

\* the reference greedy longest-prefix transducer: the output, the number of
\* conversions with a penalty and the number of characters copied
Transduce(convdict, maxlen, w) ==
    LET f[i \in 1..(Len(w) + 1)] ==
            IF i > Len(w) THEN [out |-> <<>>, penalty |-> 0, copied |-> 0]
            ELSE LET n == LongestKeyAt(convdict, maxlen, w, i) IN
                 IF n = 0
                 THEN [out |-> <<w[i]>> \o f[i + 1].out, penalty |-> f[i + 1].penalty,
                       copied |-> f[i + 1].copied + 1]
                 ELSE LET conv == convdict[SubSeq(w, i, i + n - 1)] IN
                      [out |-> conv.output \o f[i + n].out,
                       penalty |-> f[i + n].penalty + (IF conv.penalty THEN 1 ELSE 0),
                       copied |-> f[i + n].copied]
    IN f[1]

\* the runs of the conversion loop in the mk_candidate calls made so far
LoopRuns ==
    {<<mk_calls[n].langcode, mk_calls[n].loop[1]>> :
        n \in {m \in 1..Len(mk_calls) : mk_calls[m].loop # <<>>}}

\* C15: the conversion loop of mk_candidate is the greedy longest-prefix
\* transducer: its output, its penalty and the characters it copies with a
\* warning are those of the reference, and it ends after at most one
\* iteration per character of the input.
ConversionIsGreedyLongestPrefix ==
    \A run \in LoopRuns :
        LET ref == Transduce(convdicts[run[1]], maxkeylengths[run[1]], run[2].input)
        IN /\ run[2].out_word = ref.out
           /\ run[2].penalty = ref.penalty
           /\ run[2].copied = ref.copied
           /\ run[2].rounds <= Len(run[2].input)

\* a conversion that consumed a two-letter key whose first letter is a key
\* too, and copied a character no key starts with
LongKeyAndCopiedCharacter ==
    \E run \in LoopRuns :
        /\ run[2].penalty >= 1
        /\ run[2].copied >= 1
        /\ run[2].rounds < Len(run[2].input)

\* the parentheses still open at the end of the text when read from position
\* i on: the ')' less the '(' of word[i..]
Unclosed(word, i) ==
    Cardinality({j \in i..Len(word) : word[j] = ")"})
    - Cardinality({j \in i..Len(word) : word[j] = "("})

\* the text left after stripping a trailing comment in parentheses: a word
\* ending in ')' is cut at the '(' that this ')' closes
AfterTrailingComment(word) ==
    LET opens == {i \in 1..Len(word) : Unclosed(word, i) = 0}
    IN IF EndsWith(word, <<")">>) /\ opens # {}
       THEN strip(SubSeq(word, 1, (CHOOSE i \in opens : \A j \in opens : j <= i) - 1))
       ELSE word

\* C16: mk_candidate returns None exactly when the text left after stripping
\* a trailing comment in parentheses is empty or holds no Latin letter.
NoneExactlyWithoutLatinText ==
    \A n \in 1..Len(mk_calls) :
        mk_calls[n].result = None
            <=> ~(/\ AfterTrailingComment(mk_word) # <<>>
                  /\ has_latin_letter(AfterTrailingComment(mk_word)))

\* C17: the candidate a mk_candidate call returns for (language, word, word
\* class) has the word and the penalty that a build on an empty cache gives
\* for these arguments, whatever earlier calls have left in the cache.
CachedEqualsUncached ==
    \A n \in 1..Len(mk_calls) :
        LET got == mk_calls[n].result
            uncached == mk_candidate(<<>>, mk_word, mk_calls[n].langcode,
                                     mk_calls[n].langcode, mk_calls[n].cls).result
        IN /\ got = None <=> uncached = None
           /\ got # None =>
                 /\ got[1].word = uncached[1].word
                 /\ got[1].penalty = uncached[1].penalty

\* the rounds of the build_candidates_for_lang calls made so far: what each
\* did to the Candidate object it worked on
BuildRoundsMade ==
    UNION {{builds[n].rounds[k] : k \in 1..Len(builds[n].rounds)} :
              n \in 1..Len(builds)}

\* C19 (as stated): once insert_filler_vowels has run on a candidate, no
\* later step of candidate building changes its word or its penalty.
ReadOnlyAfterRepair ==
    \A r \in BuildRoundsMade :
        /\ r.final.word = r.filled.word
        /\ r.final.penalty = r.filled.penalty
        /\ r.made.filled => (r.final.word = r.made.word
                             /\ r.final.penalty = r.made.penalty)

\* C19 (amended): once insert_filler_vowels has run on a candidate, no later
\* step of candidate building changes its penalty, and its word changes only
\* under the schwastrip option, by which every round that handles the
\* candidate takes at most one filler vowel off each end of the word.
OnlyStripAfterRepair ==
    \A r \in BuildRoundsMade :
        /\ r.final.penalty = r.filled.penalty
        /\ r.made.filled => r.filled = r.made
        /\ ~schwastrip => r.final.word = r.filled.word
        /\ \E a, b \in {<<>>, <<SCHWA>>} : r.filled.word = a \o r.final.word \o b

\* under the schwastrip option, a candidate taken from the cache whose
\* repair had been paid for by a penalty lost a filler vowel once more
StrippedAgain ==
    \E r \in BuildRoundsMade :
        /\ r.hit /\ r.made.filled
        /\ r.final.word # r.made.word
        /\ r.final.penalty >= 1

\* the candidates of a returned list have pairwise distinct words
DistinctWords(returned) ==
    \A i, j \in 1..Len(returned) : returned[i].word = returned[j].word => i = j

LegalOnset(p) ==
    /\ Len(p) <= 2
    /\ Len(p) >= 1 => p[1] \in INITIAL_CONSONANTS
    /\ Len(p) = 2 => p[2] \in SECOND_CONSONANTS

\* the cluster without one leading consonant that may end a syllable
AfterCoda(p) ==
    IF p # <<>> /\ p[1] \in SYLLABLE_FINAL_CONSONANTS THEN Tail(p) ELSE p

\* every character of the word is of the internal alphabet, or a space
InternalAlphabetOnly(word) ==
    \A i \in 1..Len(word) : word[i] \in ALL_CONSONANTS \cup INTERNAL_VOWELS \cup {" "}

\* the rule as stated: the final cluster of each sub-word is empty or one
\* word-final consonant, every other cluster is a legal onset after one
\* leading syllable-final consonant is discarded
LegalAsStated(word) ==
    /\ InternalAlphabetOnly(word)
    /\ \A w \in {Split(word)[k] : k \in 1..Len(Split(word))} :
          LET parts == VowelSplit(w) IN
          /\ Len(parts[Len(parts)]) <= 1
          /\ \A c \in {parts[Len(parts)][i] : i \in 1..Len(parts[Len(parts)])} :
                c \in WORD_FINAL_CONSONANTS
          /\ \A k \in 1..(Len(parts) - 1) : LegalOnset(AfterCoda(parts[k]))

\* the rule of the code: the first cluster of a sub-word is a legal onset as
\* it stands (nothing is discarded, there is no syllable before it), also
\* when it is the final cluster of a sub-word without vowels
LegalWithWholeFirstCluster(word) ==
    /\ InternalAlphabetOnly(word)
    /\ \A w \in {Split(word)[k] : k \in 1..Len(Split(word))} :
          LET parts == VowelSplit(w) IN
          /\ Len(parts[Len(parts)]) <= 1
          /\ \A c \in {parts[Len(parts)][i] : i \in 1..Len(parts[Len(parts)])} :
                c \in WORD_FINAL_CONSONANTS
          /\ LegalOnset(parts[1])
          /\ \A k \in 2..(Len(parts) - 1) : LegalOnset(AfterCoda(parts[k]))

\* C21 (as stated): validate() returns None exactly when every character is
\* of the internal alphabet and, in each sub-word, the final cluster is empty
\* or one word-final consonant and every other cluster, one leading
\* syllable-final consonant discarded, is a legal onset.
ValidatorRuleAsStated ==
    valErr # "unset" => (valErr = "None" <=> LegalAsStated(cand.word))

\* C21 (amended): validate() returns None exactly when every character is of
\* the internal alphabet and, in each sub-word, the final cluster is empty or
\* one word-final consonant, the first cluster is a legal onset as it stands,
\* and every cluster between them, one leading syllable-final consonant
\* discarded, is a legal onset.
ValidatorRule ==
    valErr # "unset" => (valErr = "None" <=> LegalWithWholeFirstCluster(cand.word))

\* validate() accepted an unrepaired word of three letters that starts and
\* ends with a consonant
ValidatedClosedSyllable ==
    /\ calls = 0 /\ valErr = "None" /\ Len(cand.word) = 3
    /\ cand.word[1] \in ALL_CONSONANTS /\ cand.word[3] \in ALL_CONSONANTS

\* ---------------------------------------------------------------------
\* The illegal-pair loop (buildutil.py 412-416)

\* the word after at most n passes of the 'while count' loop, and whether
\* the loop has exited by then (a pass that replaced nothing has run)
RECURSIVE IllegalConsPairRun(_, _)
IllegalConsPairRun(w, n) ==
    IF n = 0 THEN [word |-> w, exited |-> FALSE]
    ELSE IF IllegalConsPairPass(w) = w THEN [word |-> w, exited |-> TRUE]
    ELSE IllegalConsPairRun(IllegalConsPairPass(w), n - 1)

HasIllegalConsPair(w) == \E i \in 1..Len(w) : Matches(w, i, ILLEGAL_CONS_PAIR)

\* C23: the illegal-pair loop exits on every input word, after at most as
\* many passes as the word has letters, and the word it leaves contains no
\* consonant that may not end a syllable followed by a consonant that may not
\* stand in second position
IllegalPairLoopTerminates ==
    \E r \in {IllegalConsPairRun(orig, Len(orig))} :
        /\ r.exited
        /\ r.word = IllegalConsPairLoop(orig)
        /\ ~HasIllegalConsPair(r.word)

\* a word of three consonants, in which the second pass finds a pair the
\* first pass has left, has been repaired
ThreeIllegalConsonantsRepaired ==
    /\ calls >= 1
    /\ HasIllegalConsPair(orig)
    /\ HasIllegalConsPair(IllegalConsPairPass(orig))

\* ---------------------------------------------------------------------
\* Words without a vowel (buildutil.py 469-498)

\* the loop body up to line 489: the state of the sub-word w0 when the rule
\* for words without a vowel (line 492) is reached
BeforeVowellessFiller(w0, lang, eil) ==
    LET t1 == Then([w |-> w0, lost |-> 0, other |-> 0],
                   LAMBDA s : RepairPhaseSimplify(s, lang, eil))
        t2 == Then(t1, LAMBDA s : RepairPhaseFillers(s, lang, eil))
        t3 == Then(t2, LAMBDA s : StageSemivowels(s, lang, eil))
        t4 == Step(t3, TwoConsonants)
        t5 == Step(t4, PrependFiller)
    IN Step(t5, AppendFiller)

\* the sub-words of the word as insert_filler_vowels splits it
SubWords(word) == Split(PunctSub(word))

\* every sub-word of the repaired word that has a consonant has a vowel
RepairedSubWordsHaveVowel ==
    \A i \in 1..Len(Split(first.word)) :
        HasConsonant(Split(first.word)[i]) => HasVowel(Split(first.word)[i])

\* C24 (as stated): after repair every sub-word with a consonant has a vowel,
\* and a sub-word that had only consonants before repair has received exactly
\* one filler vowel, which has cost exactly one penalty point
OneFillerPerConsonantCluster ==
    calls >= 1 =>
        /\ RepairedSubWordsHaveVowel
        /\ \A i \in 1..Len(SubWords(orig)) :
              \E r \in {RepairWord(SubWords(orig)[i], cand.lang, cand.eil)} :
                  ~HasVowel(SubWords(orig)[i]) =>
                      /\ Count(r.word, <<SCHWA>>) = 1
                      /\ r.pen - r.lost - r.other = 1

\* C24 (amended): after repair every sub-word with a consonant has a vowel; a
\* sub-word that has consonants and no vowel when line 492 is reached gets
\* exactly one filler vowel there, at its end, and the repaired sub-word has
\* this one filler vowel and costs one penalty point for it; in every
\* sub-word each filler vowel of the result costs one point
VowellessWordsGetOneFiller ==
    calls >= 1 =>
        /\ RepairedSubWordsHaveVowel
        /\ \A i \in 1..Len(SubWords(orig)) :
              \E r \in {RepairWord(SubWords(orig)[i], cand.lang, cand.eil)} :
              \E b \in {BeforeVowellessFiller(SubWords(orig)[i], cand.lang, cand.eil)} :
                  /\ r.pen - r.lost - r.other = Count(r.word, <<SCHWA>>)
                  /\ (HasConsonant(b.w) /\ ~HasVowel(b.w)) =>
                         /\ VowellessFiller(b.w) = b.w \o <<SCHWA>>
                         /\ Count(r.word, <<SCHWA>>) = 1
                         /\ r.pen - r.lost - r.other = 1

\* a word of two consonants that no earlier rule has given a vowel has been
\* repaired with one filler vowel at the cost of one penalty point
VowellessClusterFilled ==
    /\ calls >= 1
    /\ Len(orig) = 2 /\ SubWords(orig) = <<orig>>
    /\ \E b \in {BeforeVowellessFiller(orig, cand.lang, cand.eil)} :
          HasConsonant(b.w) /\ ~HasVowel(b.w) /\ Len(b.w) = 2
    /\ Count(first.word, <<SCHWA>>) = 1
    /\ first.penalty = 1

\* ---------------------------------------------------------------------
\* Words emptied by the repair (buildutil.py 366-373)

HasLetter(w) == \E i \in 1..Len(w) : w[i] \in ALL_CONSONANTS \cup INTERNAL_VOWELS

\* C28: repair never empties a word: once insert_filler_vowels has run on a
\* word that had at least one letter, the word is not empty, so that
\* validate() never accepts an empty word
RepairNeverEmpties ==
    (calls >= 1 /\ HasLetter(orig)) => cand.word # <<>>

\* C29: calc_distance is total: every call, on the empty word and on words of
\* filler vowels as on any other word, returns an (edit distance, related)
\* pair and raises no exception
DistanceTotal ==
    \A i \in 1..Len(dres) : dres[i].raised = ""

\* ---------------------------------------------------------------------
\* The related candidates after the loop of select_candidate
\* (buildvoc.py 2321-2322)

\* c lists the m-th candidate of language l as related
ListsRelated(c, l, m) ==
    /\ l \in DOMAIN c.related_cands
    /\ \E n \in 1..Len(c.related_cands[l]) : c.related_cands[l][n] = <<l, m>>

FallbacksUsed(c) ==
    {c.tried[t].lang : t \in {i \in 1..Len(c.tried) :
                                 c.tried[i].main # "" /\ c.tried[i].got}}

\* the calls the call c of build_candidates has made for the language of its
\* t-th call to build_candidates_for_lang and for the fallbacks of that
\* language
RoundOf(c, t) ==
    SubSeq(c.tried, t,
           CHOOSE e \in t..Len(c.tried) :
               /\ \A j \in (t + 1)..e : c.tried[j].main # ""
               /\ e < Len(c.tried) => c.tried[e + 1].main = "")

\* the fallbacks of one language (r: the calls made for it, the first one for
\* the language itself) were tried in order, up to the first one that yielded
\* candidates, and only because the language itself yielded none
FallbacksInOrder(r) ==
    /\ r[1].got => Len(r) = 1
    /\ r[1].lang \notin DOMAIN main_to_fallbacks => Len(r) = 1
    /\ (~r[1].got /\ r[1].lang \in DOMAIN main_to_fallbacks) =>
          \E F \in {main_to_fallbacks[r[1].lang]} :
              /\ Len(r) - 1 <= Len(F)
              /\ \A k \in 1..(Len(r) - 1) :
                    /\ r[k + 1].lang = F[k]
                    /\ r[k + 1].main = r[1].lang
                    /\ k < Len(r) - 1 => ~r[k + 1].got
              /\ Len(r) - 1 < Len(F) => r[Len(r)].got

\* C22: in every build_candidates call the fallbacks of a language are tried
\* only when the language itself has yielded no candidate, in their order and
\* up to the first one that yields candidates; the dict returned holds a
\* fallback language exactly if it was used so, with its candidates and
\* without its main language and the fallbacks before it; and after the call
\* the active-fallback set holds exactly the fallbacks used in this call,
\* whatever it held before
FallbackSubstitution ==
    \A n \in 1..Len(fb_calls) : \E c \in {fb_calls[n]} :
        /\ \A t \in 1..Len(c.tried) :
              c.tried[t].main = "" => FallbacksInOrder(RoundOf(c, t))
        /\ ~c.exit =>
              \A m \in DOMAIN main_to_fallbacks : \A k \in 1..Len(main_to_fallbacks[m]) :
                  \E f \in {main_to_fallbacks[m][k]} :
                      /\ f \in Keys(c.candidates) <=> f \in FallbacksUsed(c)
                      /\ f \in Keys(c.candidates) =>
                            /\ m \notin Keys(c.candidates)
                            /\ \A j \in 1..(k - 1) :
                                  main_to_fallbacks[m][j] \notin Keys(c.candidates)
                            /\ \A i \in 1..Len(c.candidates) :
                                  c.candidates[i].lang = f => c.candidates[i].cands # <<>>
        /\ n = Len(fb_calls) => active_fallbacks = FallbacksUsed(c)

\* a first call has used the second fallback, after the language itself (with
\* a word that fails validation) and the first fallback had yielded nothing;
\* the second call, with candidates of the language itself, has emptied the
\* active-fallback set
FallbackUsedThenReset ==
    /\ Len(fb_calls) = 2
    /\ fb_calls[1].entry.raw["hi"] # <<>>
    /\ Len(RoundOf(fb_calls[1], 1)) = 3
    /\ Keys(fb_calls[1].candidates) = {"ko"}
    /\ fb_calls[2].before = {"ko"}
    /\ "hi" \in Keys(fb_calls[2].candidates)
    /\ active_fallbacks = {}

NonEmptyLines(text) ==
    LET f[i \in 1..(Len(text) + 1)] ==
            \* <<finished lines, current line>> for the suffix from i, built
            \* right to left
            IF i > Len(text) THEN <<<<>>, <<>>>>
            ELSE LET r == f[i + 1] IN
                 IF text[i] = NEWLINE
                 THEN IF r[2] = <<>> THEN r ELSE << <<r[2]>> \o r[1], <<>> >>
                 ELSE <<r[1], <<text[i]>> \o r[2]>>
        top == f[1]
    IN IF top[2] = <<>> THEN top[1] ELSE <<top[2]>> \o top[1]

\* the messages logged so far, as info and warn were asked to log them
LoggedSoFar ==
    SeqMap(SelectSeq(log_calls, LAMBDA c : c.op # "append_all_messages"),
           LAMBDA c : IF c.op = "warn" THEN WARNING_PREFIX \o c.msg ELSE c.msg)

\* the lines added to the selection log followed by the pending messages are
\* the messages logged so far, each once and in order
LoggedOnceInOrder ==
    /\ Len(logfile.text) >= Len(log_start.text)
    /\ SubSeq(logfile.text, 1, Len(log_start.text)) = log_start.text
    /\ NonEmptyLines(logfile.text) \o messages
          = NonEmptyLines(log_start.text) \o LoggedSoFar
    /\ stdout = LoggedSoFar
    /\ (log_calls # <<>> /\ log_calls[Len(log_calls)].op = "append_all_messages")
          => messages = <<>>

\* a call of append_all_messages without pending messages changes nothing
AppendWithoutPendingDoesNothing ==
    (/\ Len(log_calls') = Len(log_calls) + 1
     /\ log_calls'[Len(log_calls')].op = "append_all_messages"
     /\ messages = <<>>)
        => /\ logfile' = logfile /\ backup' = backup /\ messages' = messages

\* C26: over any sequence of info, warn and append_all_messages calls every
\* logged message is written to the selection log exactly once and in the
\* order it was logged (warnings with the prefix 'WARNING: '), the record is
\* empty after append_all_messages, and append_all_messages without pending
\* messages does nothing.
AuditLogWrittenOnce ==
    []LoggedOnceInOrder /\ [][AppendWithoutPendingDoesNothing]_vars

\* an existing selection log after two appends: 'a' and a warning 'b', then 'b'
TwoAppendsWithWarning ==
    /\ log_start = [exists |-> TRUE, text |-> <<"o", NEWLINE>>]
    /\ [i \in 1..Len(log_calls) |-> log_calls[i].op]
          = <<"info", "warn", "append_all_messages", "info", "append_all_messages">>
    /\ log_calls[1].msg = <<"a">> /\ log_calls[2].msg = <<"b">> /\ log_calls[4].msg = <<"b">>
    /\ messages = <<>>
    /\ logfile.text = <<"o", NEWLINE, NEWLINE, NEWLINE, "a", NEWLINE>>
                      \o WARNING_PREFIX \o <<"b", NEWLINE, NEWLINE, NEWLINE, "b", NEWLINE>>
    /\ backup # <<>>

\* the needed counts find_concepts goes on with are positive and sum to
\* concept_count, and neither RuntimeError was raised
NeededCountsSane ==
    /\ pc \notin {"RuntimeError: total", "RuntimeError: non-positive"}
    /\ pc = "found" =>
          /\ \A kind \in DOMAIN concepts.needed_kinds : concepts.needed_kinds[kind] > 0
          /\ SumValues([kind \in Kind |->
                           IF kind \in DOMAIN concepts.needed_kinds
                           THEN concepts.needed_kinds[kind] ELSE 0], KINDS)
                = concepts.concept_count

\* C27: for every existing distribution of kinds and every concept_count >= 1
\* the loop over cycle(kind_list) ends, every needed count is positive, the
\* needed counts sum to concept_count, and neither RuntimeError is raised.
FindConceptsSanityChecksPass ==
    (pc = "find_concepts") => ([]NeededCountsSane /\ <>(pc = "found"))

\* a call with an overshoot whose loop passed over a kind that could give
\* nothing back before it ended
OvershootRedistributed ==
    /\ pc = "found"
    /\ concepts.overshoot >= 2
    /\ concepts.iterations > concepts.overshoot
    /\ Len(concepts.kind_list) >= 2

====
